---- MODULE Spec2Model ----
(***************************************************************************)
(* IPCow: the Listener Manager (ListenerManager::run) and the per-         *)
(* connection handler (handle_connection), in the two revisions the        *)
(* repository carries:                                                     *)
(*   variant = "core"  src/src/core/network.rs + src/src/core/handlers.rs  *)
(*   variant = "lib"   src/src/lib.rs                                      *)
(* One step of the model is one poll of a task between two suspension      *)
(* points (.await) of the source.                                          *)
(***************************************************************************)
EXTENDS Integers, Sequences, FiniteSets, TLC

\* ---------------------------------------------------------------- bounds
MaxEndpoints == 2
MaxWorkers == 2
MaxConns == 2
MaxReads == 2
MaxAccepts == 1
MaxExpand == 256

\* ------------------------------------------------------ program constants
max_retries == 2
DETECTION_BUF == 1024
STREAM_BUF == 8192

Variants == {"core", "lib"}

\* ------------------------------------------------------------ input sets
LOCALHOST == <<127, 0, 0, 1>>
Ports == {8080, 8081}
AddrData == [address : {LOCALHOST}, port : Ports]
PeerAddrs == {[ip |-> <<10, 0, 0, 9>>, port |-> 40001],
              [ip |-> <<10, 0, 0, 9>>, port |-> 8080]}
\* what a peer may put on the wire, as bytes: "a", "b\r\n", one invalid byte
Payloads == {<<97>>, <<98, 13, 10>>, <<255>>}

\* io::Error texts (e.to_string())
EADDRINUSE == "Address already in use (os error 98)"
EACCES == "Permission denied (os error 13)"
EMFILE == "Too many open files (os error 24)"
TIMEOUT_TEXT == "Connection timeout"
BindErrors == {EADDRINUSE}
AcceptErrors == {EMFILE}

\* ------------------------------------------------------------ variables
VARIABLES
    variant,         \* which revision of ListenerManager / handle_connection
    addr_data,       \* ListenerManager.addr_data
    max_concurrent,  \* ListenerManager.max_concurrent
    permits,         \* free permits of the semaphore of run
    next_ep,         \* position of run's for loop (next endpoint to spawn)
    run_pc,          \* "running" | "returned" | "aborted"
    run_result,      \* "None" | "Ok" | "Err"
    listener,        \* state of listener task i
    retry_count,     \* retry_count of listener task i (lib)
    shutdown_tx,     \* broadcast sender of run (lib): "absent"|"alive"|"dropped"
    errors,          \* ErrorRegistry.errors : id -> text
    registry_lock,   \* owner of the Mutex<ErrorRegistry>: a listener, 0 if free
    issued,          \* history: the (text, id) of every register_error call
    conns,           \* accepted connections and their handler tasks
    discoveries,     \* ServiceDiscovery.discoveries : peer addr -> content
    log_file,        \* discovered_services.txt, one element per entry
    disc_lock,       \* owner of ServiceDiscovery.discoveries' Mutex: a
                     \* connection, 0 if free
    calls,           \* history: the caller, addr and content of every
                     \* record_service call, in the order the calls took
                     \* the lock
    is_running,      \* CoreState.is_running
    shutdown_called, \* history: IPCowCore::shutdown has been called
    ip_input,        \* addr_input: the line read for the IP addresses
    port_input,      \* addr_input: the line read for the ports
    ips,             \* outcome of parse_ip_input(&ip_input)
    ports,           \* outcome of parse_port_input(&port_input)
    addr_data_list,  \* start_multi_port_server: the composed endpoints
    parse_pc,        \* position in addr_input / start_multi_port_server
    metrics_file,    \* metrics.txt: whether it exists, and its first line
    cal_pc,          \* position in get_thread_factor, "idle" outside a call
    system_threads,  \* available_parallelism()
    search,          \* the locals of find_optimal_workers
    cal_log,         \* history: the last two get_thread_factor calls
    hosts,           \* HostTracker.hosts of a ping_range call: ip -> status
    host_log,        \* host_status.log, one element per line
    ping             \* ping_range: its ips, the position of its for loop

vars == <<variant, addr_data, max_concurrent, permits, next_ep, run_pc,
          run_result, listener, retry_count, shutdown_tx, errors,
          registry_lock, issued, conns, discoveries, log_file, disc_lock,
          calls, is_running, shutdown_called, ip_input, port_input, ips,
          ports, addr_data_list, parse_pc, metrics_file, cal_pc,
          system_threads, search, cal_log, hosts, host_log, ping>>

mgrVars == <<permits, next_ep, run_pc, run_result, listener, retry_count,
             shutdown_tx>>
\* what start_multi_port_server works on before the manager exists
parseVars == <<ip_input, port_input, ips, ports, addr_data_list, parse_pc>>
\* what get_thread_factor works on
calVars == <<metrics_file, cal_pc, system_threads, search, cal_log>>
\* what ping_range works on
pingVars == <<hosts, host_log, ping>>
\* everything that is settled once ListenerManager::new has been called
cfgVars == <<variant, addr_data, max_concurrent, parseVars, calVars,
             pingVars>>
coreVars == <<is_running, shutdown_called>>
discVars == <<discoveries, log_file, disc_lock, calls>>
regVars == <<errors, registry_lock, issued>>

\* ------------------------------------------------------------- helpers
SeqsUpTo(S, n) == UNION {[1..k -> S] : k \in 0..n}

Endpoints == 1..Len(addr_data)

Terminated(i) == listener[i] \in {"BindFailed", "Closed"}
HoldsPermit(i) == listener[i] \in {"Binding", "Accepting"}

\* the hasher finished without the text written into it: the hash of nothing
DefaultHash_Unfed(text) == "15130871412783076140"

\* std::collections::hash_map::DefaultHasher (SipHash-1-3, zero keys) of a
\* str; 64-bit values, kept as decimal strings
DefaultHash(text) ==
    CASE text = EADDRINUSE -> "7422280744577156734"
      [] text = EACCES -> "3239285938508838126"
      [] text = EMFILE -> "5831440636516471202"
      [] text = TIMEOUT_TEXT -> "15071376835612813256"

\* a registry that is replaced by the new entry instead of added to
register_error_Replace(reg, text) ==
    [k \in {DefaultHash(text)} |-> text]

\* ErrorRegistry::register_error: entry(id).or_insert_with(text)
register_error(reg, text) ==
    LET id == DefaultHash(text)
    IN IF id \in DOMAIN reg THEN reg
       ELSE [k \in DOMAIN reg \cup {id} |-> IF k = id THEN text ELSE reg[k]]

Registered(text) ==
    DefaultHash(text) \in DOMAIN errors /\ errors[DefaultHash(text)] = text

\* String::from_utf8_lossy on payloads whose non-ASCII bytes are isolated
\* invalid bytes: each becomes U+FFFD
from_utf8_lossy(bytes) ==
    [k \in 1..Len(bytes) |-> IF bytes[k] < 128 THEN bytes[k] ELSE 65533]

Min(a, b) == IF a < b THEN a ELSE b

\* buf[..n] of one read into a buffer of `cap` bytes
ReadInto(bytes, cap) == SubSeq(bytes, 1, Min(Len(bytes), cap))

\* stream_buffer[..n].ends_with(&[13, 10])
EndsWithCRLF(bytes) ==
    /\ Len(bytes) >= 2
    /\ bytes[Len(bytes) - 1] = 13
    /\ bytes[Len(bytes)] = 10

\* --------------------------------------------------------------- Init
NoResponse == [port |-> 0, status |-> "none"]

\* no call of a parser made (yet): no outcome
NotParsed == [status |-> "None", list |-> <<>>, whole |-> TRUE]

\* the manager is handed an endpoint sequence whatever its origin: while it
\* runs, the parser's variables rest
ParseRest ==
    /\ ip_input = <<>>
    /\ port_input = <<>>
    /\ ips = NotParsed
    /\ ports = NotParsed
    /\ addr_data_list = <<>>
    /\ parse_pc = "off"

MgrInit ==
    /\ variant \in Variants
    /\ addr_data \in SeqsUpTo(AddrData, MaxEndpoints)
    /\ max_concurrent \in 0..MaxWorkers
    /\ permits = max_concurrent
    /\ next_ep = 1
    /\ run_pc = "running"
    /\ run_result = "None"
    /\ listener = [i \in 1..Len(addr_data) |-> "Unbound"]
    /\ retry_count = [i \in 1..Len(addr_data) |-> 0]
    /\ shutdown_tx = IF variant = "lib" THEN "alive" ELSE "absent"
    /\ errors = <<>>
    /\ registry_lock = 0
    /\ issued = {}
    /\ conns = <<>>
    /\ discoveries = <<>>
    /\ log_file = <<>>
    /\ disc_lock = 0
    /\ calls = <<>>
    /\ is_running = FALSE
    /\ shutdown_called = FALSE

\* no call of get_thread_factor yet, and no metrics.txt
NoFile == [exists |-> FALSE, line |-> <<>>]

\* find_optimal_workers is not running: its locals, and the history of the
\* run_benchmark calls of a search (tested: the worker count passed and the
\* cpu_usage measured, call by call)
NoSearch ==
    [next_workers |-> 0, best_workers |-> 0, total_tested |-> 0,
     tested |-> <<>>]

CalRest ==
    /\ metrics_file = NoFile
    /\ cal_pc = "idle"
    /\ system_threads = 1
    /\ search = NoSearch
    /\ cal_log = <<>>

\* no ping_range call under way
NoPing == [ips |-> <<>>, idx |-> 1, pc |-> "off"]

PingRest ==
    /\ hosts = <<>>
    /\ host_log = <<>>
    /\ ping = NoPing

Init == ParseRest /\ CalRest /\ PingRest /\ MgrInit


\* ------------------------------------------------- Listener Manager: run
SetListener(i, st) == [listener EXCEPT ![i] = st]

\* TcpListener::bind fails with EADDRINUSE while another listener of this
\* process holds the same socket address; otherwise the host decides
AddrInUse(i) ==
    \E j \in Endpoints : j # i /\ listener[j] = "Accepting"
                         /\ addr_data[j] = addr_data[i]

\* for addr_data in self.addr_data.iter():
\*     let permit = semaphore.clone().acquire_owned().await?;
\*     let task = tokio::spawn(..); listener_tasks.push(task);
CanAcquire_NoWait == TRUE

CanAcquire == permits > 0

\* a loop that takes the endpoints from the far end of the sequence
SpawnListener_LastFirst ==
    /\ run_pc = "running"
    /\ next_ep <= Len(addr_data)
    /\ CanAcquire
    /\ permits' = permits - 1
    /\ listener' = SetListener(Len(addr_data) + 1 - next_ep, "Binding")
    /\ next_ep' = next_ep + 1
    /\ UNCHANGED <<cfgVars, run_pc, run_result, retry_count, shutdown_tx,
                   regVars, conns, discVars, coreVars>>

SpawnListener ==
    /\ run_pc = "running"
    /\ next_ep <= Len(addr_data)
    /\ CanAcquire
    /\ permits' = permits - 1
    /\ listener' = SetListener(next_ep, "Binding")
    /\ next_ep' = next_ep + 1
    /\ UNCHANGED <<cfgVars, run_pc, run_result, retry_count, shutdown_tx,
                   regVars, conns, discVars, coreVars>>

\* lib: let mut registry = error_registry.lock().await; ..
\*      tokio::time::sleep(retry_delay).await;
\* the guard `registry` lives to the end of the match arm, so a listener
\* that goes on to retry sleeps with the lock; it takes no other step until
\* the sleep is over
Awake(i) == registry_lock # i

\* error_registry.lock().await; registry.register_error(text)
Register(text) ==
    /\ registry_lock = 0
    /\ errors' = register_error(errors, text)
    /\ issued' = issued \cup {[text |-> text, id |-> DefaultHash(text)]}

\* Ok(listener) => { println!("Listening on: {}", socket_addr); loop {..} }
BindOk(i) ==
    /\ listener[i] = "Binding"
    /\ Awake(i)
    /\ ~AddrInUse(i)
    /\ listener' = SetListener(i, "Accepting")
    /\ UNCHANGED <<cfgVars, permits, next_ep, run_pc, run_result,
                   retry_count, shutdown_tx, regVars, conns, discVars,
                   coreVars>>

\* lib: if retry_count >= max_retries { break } retry_count += 1; sleep
\* core: the task falls through to drop(permit)
RetriesLeft(i) == variant = "lib" /\ retry_count[i] < max_retries

\* a bind failure that drops the error instead of registering it
BindFail_Unregistered(i, e) ==
    /\ listener[i] = "Binding"
    /\ Awake(i)
    /\ AddrInUse(i) => e = EADDRINUSE
    /\ IF RetriesLeft(i)
       THEN /\ retry_count' = [retry_count EXCEPT ![i] = @ + 1]
            /\ UNCHANGED <<listener, permits>>
       ELSE /\ listener' = SetListener(i, "BindFailed")
            /\ permits' = permits + 1
            /\ UNCHANGED retry_count
    /\ UNCHANGED <<cfgVars, next_ep, run_pc, run_result, shutdown_tx,
                   regVars, conns, discVars, coreVars>>

\* Err(e) of bind: register the error, then end the task (core) or retry (lib)
BindFail(i, e) ==
    /\ listener[i] = "Binding"
    /\ Awake(i)
    /\ AddrInUse(i) => e = EADDRINUSE
    /\ Register(e)
    /\ IF RetriesLeft(i)
       THEN /\ retry_count' = [retry_count EXCEPT ![i] = @ + 1]
            /\ registry_lock' = i
            /\ UNCHANGED <<listener, permits>>
       ELSE /\ listener' = SetListener(i, "BindFailed")
            /\ permits' = permits + 1
            /\ UNCHANGED <<retry_count, registry_lock>>
    /\ UNCHANGED <<cfgVars, next_ep, run_pc, run_result, shutdown_tx,
                   conns, discVars, coreVars>>

\* the handler task spawned for an accepted (socket, addr)
NoInbox == [kind |-> "empty", bytes |-> <<>>]

NewConn(i, addr) ==
    [listener |-> i, addr |-> addr,
     pc |-> IF variant = "core" THEN "probe" ELSE "read",
     inbox |-> NoInbox, content |-> <<>>, probe |-> "none",
     reads |-> 0, last_read |-> "none", records |-> 0,
     logged |-> "none", response |-> NoResponse]

\* a peer socket address has at most one open connection to a local socket
\* address; the connection is open until its handler drops the socket
PeerConnected(i, addr) ==
    \E c \in 1..Len(conns) :
        /\ conns[c].addr = addr
        /\ addr_data[conns[c].listener] = addr_data[i]
        /\ conns[c].pc # "done"

\* Ok((socket, addr)) => tokio::spawn(handle_connection(..))
AcceptOk(i, addr) ==
    /\ listener[i] = "Accepting"
    /\ Awake(i)
    /\ ~PeerConnected(i, addr)
    /\ Len(conns) < MaxConns
    /\ conns' = Append(conns, NewConn(i, addr))
    /\ retry_count' = IF variant = "lib"
                      THEN [retry_count EXCEPT ![i] = 0] ELSE retry_count
    /\ UNCHANGED <<cfgVars, permits, next_ep, run_pc, run_result, listener,
                   shutdown_tx, regVars, discVars, coreVars>>

\* an error arm of the accept loop after the error text was registered:
\* core stays in the loop; lib sleeps retry_delay (the registry guard still
\* alive) and breaks 'connection once retries are used up
AfterAcceptError(i) ==
    IF variant = "core" \/ RetriesLeft(i)
    THEN /\ retry_count' = IF variant = "lib"
                           THEN [retry_count EXCEPT ![i] = @ + 1]
                           ELSE retry_count
         /\ registry_lock' = IF variant = "lib" THEN i ELSE registry_lock
         /\ UNCHANGED <<listener, permits>>
    ELSE /\ listener' = SetListener(i, "Closed")
         /\ permits' = permits + 1
         /\ UNCHANGED <<retry_count, registry_lock>>

\* Err(e) of accept
AcceptErr(i, e) ==
    /\ listener[i] = "Accepting"
    /\ Awake(i)
    /\ Register(e)
    /\ AfterAcceptError(i)
    /\ UNCHANGED <<cfgVars, next_ep, run_pc, run_result, shutdown_tx,
                   conns, discVars, coreVars>>

\* lib: tokio::time::timeout(timeout_duration, listener.accept()) => Err(_)
AcceptTimeout(i) ==
    /\ variant = "lib"
    /\ listener[i] = "Accepting"
    /\ Awake(i)
    /\ Register(TIMEOUT_TEXT)
    /\ AfterAcceptError(i)
    /\ UNCHANGED <<cfgVars, next_ep, run_pc, run_result, shutdown_tx,
                   conns, discVars, coreVars>>

\* lib: _ = shutdown_rx.recv() => break 'connection.  Nothing ever sends on
\* shutdown_tx; recv() completes (with Closed) once the sender is dropped
ShutdownRecv(i) ==
    /\ variant = "lib"
    /\ listener[i] = "Accepting"
    /\ Awake(i)
    /\ shutdown_tx = "dropped"
    /\ listener' = SetListener(i, "Closed")
    /\ permits' = permits + 1
    /\ UNCHANGED <<cfgVars, next_ep, run_pc, run_result, retry_count,
                   shutdown_tx, regVars, conns, discVars, coreVars>>

\* lib: the sleep of retry_delay is over; the arm ends, the registry guard
\* is dropped and the listener is back at bind or at select!
RetryWake(i) ==
    /\ registry_lock = i
    /\ registry_lock' = 0
    /\ UNCHANGED <<cfgVars, mgrVars, errors, issued, conns, discVars,
                   coreVars>>

AllJoined_NoWait == TRUE

\* futures::future::join_all(listener_tasks).await
AllJoined == \A i \in Endpoints : Terminated(i)

DropSender == IF shutdown_tx = "alive" THEN "dropped" ELSE shutdown_tx

\* join_all(..).await; Ok(())  and the tail of IPCowCore::start
RunReturn ==
    /\ run_pc = "running"
    /\ next_ep > Len(addr_data)
    /\ AllJoined
    /\ run_pc' = "returned"
    /\ run_result' = "Ok"
    /\ shutdown_tx' = DropSender
    /\ is_running' = TRUE
    /\ UNCHANGED <<cfgVars, permits, next_ep, listener, retry_count, regVars,
                   conns, discVars, shutdown_called>>

\* the future of run is dropped (JoinHandle::abort of the task that awaits
\* it); the spawned listener tasks are detached and live on
AbortRun ==
    /\ run_pc = "running"
    /\ run_pc' = "aborted"
    /\ shutdown_tx' = DropSender
    /\ UNCHANGED <<cfgVars, permits, next_ep, run_result, listener,
                   retry_count, regVars, conns, discVars, coreVars>>

\* IPCowCore::start: let network = self.network_manager.lock().await;
\*                   network.run().await?;
\* the guard `network` lives until start returns or its future is dropped
NetworkManagerLocked == run_pc = "running"

\* IPCowCore::shutdown: state.is_running = false
Shutdown ==
    /\ is_running' = FALSE
    /\ shutdown_called' = TRUE
    /\ UNCHANGED <<cfgVars, mgrVars, regVars, conns, discVars>>


\* ------------------------------------------------------ handle_connection
Conns == 1..Len(conns)

SetConn(c, r) == [conns EXCEPT ![c] = r]

manVars == <<cfgVars, mgrVars, regVars, coreVars>>

\* the peer puts bytes on the wire, closes its side, or resets, while the
\* handler waits in socket.read(); at most MaxReads chunks per connection
PeerSend(c, bytes) ==
    /\ conns[c].pc = "read"
    /\ conns[c].inbox.kind = "empty"
    /\ conns[c].reads < MaxReads
    /\ conns' = SetConn(c, [conns[c] EXCEPT
                                !.inbox = [kind |-> "data", bytes |-> bytes]])
    /\ UNCHANGED <<manVars, discVars>>

PeerClose(c, how) ==
    /\ conns[c].pc = "read"
    /\ conns[c].inbox.kind = "empty"
    /\ conns' = SetConn(c, [conns[c] EXCEPT
                                !.inbox = [kind |-> how, bytes |-> <<>>]])
    /\ UNCHANGED <<manVars, discVars>>

\* core: socket.write_all(request.as_bytes()).await.is_ok()
\* a failed probe skips the read and falls through to the response
AfterProbe(ok) == IF ok THEN "read" ELSE "respond"

ProbeWrite(c, ok) ==
    /\ variant = "core"
    /\ conns[c].pc = "probe"
    /\ conns' = SetConn(c, [conns[c] EXCEPT
                                !.probe = IF ok THEN "ok" ELSE "fail",
                                !.pc = AfterProbe(ok)])
    /\ UNCHANGED <<manVars, discVars>>

\* core: if let Ok(n) = socket.read(&mut detection_buf).await { if n > 0 {..} }
\* where to go after the single read returned n bytes (err: the read
\* failed)
AfterRead_AnyOk(n, err) == IF ~err THEN "record" ELSE "respond"

AfterRead(n, err) == IF ~err /\ n > 0 THEN "record" ELSE "respond"

CoreRead(c) ==
    /\ variant = "core"
    /\ conns[c].pc = "read"
    /\ conns[c].inbox.kind # "empty"
    /\ LET in == conns[c].inbox
           buf == ReadInto(in.bytes, DETECTION_BUF)
           err == in.kind = "rst"
           to == AfterRead(Len(buf), err)
       IN conns' = SetConn(c, [conns[c] EXCEPT
               !.inbox = NoInbox,
               !.reads = @ + 1,
               !.last_read = in.kind,
               !.content = IF to = "record" THEN from_utf8_lossy(buf) ELSE @,
               !.pc = to])
    /\ UNCHANGED <<manVars, discVars>>

\* str::trim on the decoded content
IsSpace(ch) == ch \in {9, 10, 11, 12, 13, 32}

RECURSIVE TrimStart(_)
TrimStart(s) ==
    IF s # <<>> /\ IsSpace(Head(s)) THEN TrimStart(Tail(s)) ELSE s

RECURSIVE TrimEnd(_)
TrimEnd(s) ==
    IF s # <<>> /\ IsSpace(s[Len(s)])
    THEN TrimEnd(SubSeq(s, 1, Len(s) - 1)) ELSE s

Trim(s) == TrimEnd(TrimStart(s))

\* an insert that keeps the entry a key already has (entry().or_insert)
MapInsert_KeepFirst(m, k, v) ==
    [x \in DOMAIN m \cup {k} |-> IF x \in DOMAIN m THEN m[x] ELSE v]

\* discoveries.insert(addr, content.to_string())
MapInsert(m, k, v) ==
    [x \in DOMAIN m \cup {k} |-> IF x = k THEN v ELSE m[x]]

\* ServiceDiscovery::record_service, called by the handler with its peer
\* address and the decoded content.  Handlers run on a multi-threaded
\* executor, so the call is taken in three steps:
\*   let mut discoveries = self.discoveries.lock().await;
CanLock_NoMutex == TRUE

CanLock == disc_lock = 0

LockDiscoveries(c) ==
    /\ variant = "core"
    /\ conns[c].pc = "record"
    /\ CanLock
    /\ disc_lock' = c
    /\ calls' = Append(calls, [by |-> c, addr |-> conns[c].addr,
                               content |-> conns[c].content])
    /\ conns' = SetConn(c, [conns[c] EXCEPT !.pc = "locked"])
    /\ UNCHANGED <<manVars, discoveries, log_file>>

\*   discoveries.insert(addr, content.to_string());
InsertDiscovery(c) ==
    /\ variant = "core"
    /\ conns[c].pc = "locked"
    /\ discoveries' = MapInsert(discoveries, conns[c].addr, conns[c].content)
    /\ conns' = SetConn(c, [conns[c] EXCEPT !.records = @ + 1,
                                              !.pc = "inserted"])
    /\ UNCHANGED <<manVars, log_file, disc_lock, calls>>

\*   if let Ok(mut file) = OpenOptions::new().create(true).append(true)
\*       .open(&self.log_file) { .. let _ = writeln!(file, ..); }
\* one entry at the end of the file when it could be opened and written
\* (file_ok), nothing otherwise
AppendEntry(file, addr, content, file_ok) ==
    IF file_ok
    THEN Append(file, [ip |-> addr.ip, port |-> addr.port, separator |-> 50,
                       content |-> Trim(content)])
    ELSE file

\* the bytes of a number written with {}
RECURSIVE DecBytes(_)
DecBytes(n) ==
    IF n < 10 THEN <<48 + n>> ELSE Append(DecBytes(n \div 10), 48 + (n % 10))

\* the bytes of addr.ip() written with {}
IpBytes(ip) ==
    DecBytes(ip[1]) \o <<46>> \o DecBytes(ip[2]) \o <<46>>
        \o DecBytes(ip[3]) \o <<46>> \o DecBytes(ip[4])

\* chrono::Local::now() written with {}: date, time and offset on one line,
\* "2025-01-01 00:00:00 +00:00" standing for every time of day
LocalNow ==
    <<50, 48, 50, 53, 45, 48, 49, 45, 48, 49, 32, 48, 48, 58, 48, 48, 58, 48,
      48, 32, 43, 48, 48, 58, 48, 48>>

\* "-".repeat(n)
Dashes(n) == [k \in 1..n |-> 45]

\* format!("[{}] {}:{}\n{}\n{}\n", timestamp, addr.ip(), addr.port(),
\*         "-".repeat(50), content.trim())
formatted_entry(e) ==
    <<91>> \o LocalNow \o <<93, 32>> \o IpBytes(e.ip) \o <<58>>
        \o DecBytes(e.port) \o <<10>> \o Dashes(e.separator) \o <<10>>
        \o e.content \o <<10>>

\* what writeln!(file, "{}", formatted_entry) puts at the end of the file
EntryBytes(e) == formatted_entry(e) \o <<10>>

\* where the handler goes when record_service is over: the function returns
\* (), whatever became of the file
AfterAppend_Propagate(file_ok) == IF file_ok THEN "respond" ELSE "done"

AfterAppend(file_ok) == "respond"

\* the append, then the end of record_service: the guard is dropped
AppendLog(c, file_ok) ==
    /\ variant = "core"
    /\ conns[c].pc = "inserted"
    /\ log_file' = AppendEntry(log_file, conns[c].addr, conns[c].content,
                               file_ok)
    /\ disc_lock' = IF disc_lock = c THEN 0 ELSE disc_lock
    /\ conns' = SetConn(c, [conns[c] EXCEPT
               !.logged = IF file_ok THEN "ok" ELSE "fail",
               !.content = <<>>,
               !.pc = AfterAppend(file_ok)])
    /\ UNCHANGED <<manVars, discoveries, calls>>

\* the {} of "<h1>Port {}</h1>": addr.port()
ResponsePort(c) == conns[c].addr.port

\* core: let _ = socket.write_all(response.as_bytes()).await; the result of
\* the write is discarded and the socket is dropped at the end of the function
CoreRespond(c) ==
    /\ variant = "core"
    /\ conns[c].pc = "respond"
    /\ conns' = SetConn(c, [conns[c] EXCEPT
               !.response = [port |-> ResponsePort(c), status |-> "written"],
               !.pc = "done"])
    /\ UNCHANGED <<manVars, discVars>>

\* lib: while let Ok(n) = socket.read(&mut stream_buffer).await {
\*          if n == 0 || stream_buffer[..n].ends_with(&[13, 10]) { break; }
\*          if let Err(e) = socket.write_all(&stream_buffer[..n]).await { break; } }
LibAfterRead(buf, err, echo_ok) ==
    IF err \/ Len(buf) = 0 \/ EndsWithCRLF(buf) \/ ~echo_ok
    THEN "done" ELSE "read"

LibRead(c, echo_ok) ==
    /\ variant = "lib"
    /\ conns[c].pc = "read"
    /\ conns[c].inbox.kind # "empty"
    /\ LET in == conns[c].inbox
           buf == ReadInto(in.bytes, STREAM_BUF)
       IN conns' = SetConn(c, [conns[c] EXCEPT
               !.inbox = NoInbox,
               !.reads = @ + 1,
               !.last_read = in.kind,
               !.pc = LibAfterRead(buf, in.kind = "rst", echo_ok)])
    /\ UNCHANGED <<manVars, discVars>>

\* ------------------------------------------------------------------ Next
ListenerStep(i) ==
    \/ BindOk(i)
    \/ \E e \in BindErrors : BindFail(i, e)
    \/ ShutdownRecv(i)
    \/ RetryWake(i)

AcceptStep(i) ==
    \/ \E addr \in PeerAddrs : AcceptOk(i, addr)
    \/ \E e \in AcceptErrors : AcceptErr(i, e)
    \/ AcceptTimeout(i)

HandlerStep(c) ==
    \/ \E ok \in BOOLEAN : ProbeWrite(c, ok)
    \/ CoreRead(c)
    \/ LockDiscoveries(c)
    \/ InsertDiscovery(c)
    \/ \E file_ok \in BOOLEAN : AppendLog(c, file_ok)
    \/ CoreRespond(c)
    \/ \E echo_ok \in BOOLEAN : LibRead(c, echo_ok)

PeerStep(c) ==
    \/ \E bytes \in Payloads : PeerSend(c, bytes)
    \/ \E how \in {"eof", "rst"} : PeerClose(c, how)

\* the Listener Manager: run, its listener tasks, and the calls of the core;
\* the connections it accepts stay unserved here, MaxAccepts of them, and
\* the manager never looks at the peer address it hands to the handler, so
\* one peer stands for all
MgrPeers == {[ip |-> <<10, 0, 0, 9>>, port |-> 40001]}

MgrNext ==
    \/ SpawnListener
    \/ RunReturn
    \/ AbortRun
    \/ Shutdown
    \/ \E i \in Endpoints : BindOk(i)
    \/ \E i \in Endpoints, e \in BindErrors : BindFail(i, e)
    \/ \E i \in Endpoints : ShutdownRecv(i)
    \/ \E i \in Endpoints : RetryWake(i)
    \/ \E i \in Endpoints, addr \in MgrPeers :
          Len(conns) < MaxAccepts /\ AcceptOk(i, addr)
    \/ \E i \in Endpoints, e \in AcceptErrors : AcceptErr(i, e)
    \/ \E i \in Endpoints : AcceptTimeout(i)

\* the handler tasks and their peers, with the steps of the manager that
\* lead to an accepted connection
ConnNext ==
    \/ SpawnListener
    \/ \E i \in Endpoints : BindOk(i)
    \/ \E i \in Endpoints, addr \in PeerAddrs : AcceptOk(i, addr)
    \/ \E c \in Conns, ok \in BOOLEAN : ProbeWrite(c, ok)
    \/ \E c \in Conns : CoreRead(c)
    \/ \E c \in Conns : LockDiscoveries(c)
    \/ \E c \in Conns : InsertDiscovery(c)
    \/ \E c \in Conns, file_ok \in BOOLEAN : AppendLog(c, file_ok)
    \/ \E c \in Conns : CoreRespond(c)
    \/ \E c \in Conns, echo_ok \in BOOLEAN : LibRead(c, echo_ok)
    \/ \E c \in Conns, bytes \in Payloads : PeerSend(c, bytes)
    \/ \E c \in Conns, how \in {"eof", "rst"} : PeerClose(c, how)

Next == MgrNext \/ ConnNext

Spec == Init /\ [][Next]_vars

\* Handler and peer steps leave every variable of the manager unchanged
\* (manVars), and the manager touches a connection only by creating it, so
\* the manager is checked on its own steps, with the accepted connections
\* left where AcceptOk put them, ...
MgrSpec == Init /\ [][MgrNext]_vars

\* ... and handle_connection, which is given the socket, the peer address
\* and the discovery handle only, is checked for the connections of one
\* listener.
ConnInit == Init /\ Len(addr_data) = 1 /\ max_concurrent = 1

ConnSpec == ConnInit /\ [][ConnNext]_vars

\* The executor polls every task that is ready: the for loop of run, bind,
\* the shutdown branch of select!, join_all, and each step of a handler
\* whose I/O is ready.  What peers and the host do (connect, send, close,
\* accept errors, quiet periods, calls of shutdown or abort) is not fair.
\* A lib listener's accept timer fires whenever no connection arrives.
MgrFairness ==
    /\ WF_vars(SpawnListener)
    /\ WF_vars(RunReturn)
    /\ \A i \in 1..MaxEndpoints : WF_vars(i \in Endpoints /\ ListenerStep(i))
    /\ \A i \in 1..MaxEndpoints : WF_vars(i \in Endpoints /\ AcceptTimeout(i))

ConnFairness ==
    /\ WF_vars(SpawnListener)
    /\ \A i \in 1..MaxEndpoints : WF_vars(i \in Endpoints /\ BindOk(i))
    /\ \A c \in 1..MaxConns : WF_vars(c \in Conns /\ HandlerStep(c))

MgrFairSpec == MgrSpec /\ MgrFairness

ConnFairSpec == ConnSpec /\ ConnFairness

TypeOK ==
    /\ variant \in Variants
    /\ permits \in 0..max_concurrent
    /\ next_ep \in 1..(Len(addr_data) + 1)
    /\ run_pc \in {"running", "returned", "aborted"}
    /\ run_result \in {"None", "Ok", "Err"}
    /\ \A i \in Endpoints :
         listener[i] \in {"Unbound", "Binding", "Accepting", "BindFailed",
                          "Closed"}
    /\ Len(conns) <= MaxConns


\* ------------------------------------------------------ Endpoint Parser
\* A text is a sequence of characters, each a string of length one.
DigitChars == <<"0", "1", "2", "3", "4", "5", "6", "7", "8", "9">>

IsDigit(ch) == \E k \in 1..10 : DigitChars[k] = ch

DigitVal(ch) == (CHOOSE k \in 1..10 : DigitChars[k] = ch) - 1

\* u8::MAX and u16::MAX, the ranges of octet.parse::<u8>() and parse::<u16>()
U8_MAX == 255
U16_MAX == 65535

\* the Err of str::parse: a value outside every parsed number
ParseError == -1

\* the digits of s read as a decimal number on top of acc; ParseError on a
\* character that is no digit or once the value exceeds max
RECURSIVE DigitsValue(_, _, _)
DigitsValue(s, acc, max) ==
    IF s = <<>> THEN acc
    ELSE IF ~IsDigit(Head(s)) THEN ParseError
    ELSE LET v == acc * 10 + DigitVal(Head(s))
         IN IF v > max THEN ParseError ELSE DigitsValue(Tail(s), v, max)

\* str::parse::<u8>() / ::<u16>(): an optional '+', then at least one digit
ParseUnsigned(s, max) ==
    LET digits == IF s # <<>> /\ Head(s) = "+" THEN Tail(s) ELSE s
    IN IF digits = <<>> THEN ParseError ELSE DigitsValue(digits, 0, max)

Contains(s, ch) == \E k \in 1..Len(s) : s[k] = ch

\* str::split(sep).collect(): the parts between the separators, empty parts
\* included
RECURSIVE Split(_, _)
Split(s, sep) ==
    IF ~Contains(s, sep) THEN <<s>>
    ELSE LET k == CHOOSE i \in 1..Len(s) :
                     s[i] = sep /\ \A j \in 1..(i - 1) : s[j] # sep
         IN <<SubSeq(s, 1, k - 1)>> \o Split(SubSeq(s, k + 1, Len(s)), sep)

\* str::to_uppercase on the letters an input may hold
ToUpper(ch) == CASE ch = "x" -> "X" [] ch = "a" -> "A" [] OTHER -> ch

ToUpperCase(s) == [k \in 1..Len(s) |-> ToUpper(s[k])]

\* str::trim on a text
RECURSIVE TrimTextStart(_)
TrimTextStart(s) ==
    IF s # <<>> /\ Head(s) = " " THEN TrimTextStart(Tail(s)) ELSE s

RECURSIVE TrimTextEnd(_)
TrimTextEnd(s) ==
    IF s # <<>> /\ s[Len(s)] = " "
    THEN TrimTextEnd(SubSeq(s, 1, Len(s) - 1)) ELSE s

TrimText(s) == TrimTextEnd(TrimTextStart(s))

\* one octet of <Ipv4Addr as FromStr>: one to three digits, no leading zero,
\* at most 255
ParseOctet(s) ==
    IF /\ Len(s) \in 1..3
       /\ \A k \in 1..Len(s) : IsDigit(s[k])
       /\ Len(s) > 1 => s[1] # "0"
    THEN DigitsValue(s, 0, U8_MAX)
    ELSE ParseError

\* <Ipv4Addr as FromStr>::from_str: the four octets, << >> for Err.  An
\* address is kept as its octets; u32::from(addr) orders addresses as their
\* octets are ordered, first octet first
ParseIpv4Addr(s) ==
    LET parts == Split(s, ".")
    IN IF Len(parts) = 4 /\ \A k \in 1..4 : ParseOctet(parts[k]) # ParseError
       THEN [k \in 1..4 |-> ParseOctet(parts[k])]
       ELSE <<>>

\* start_u32 > end_u32
IpGreater(a, b) ==
    \E k \in 1..4 : a[k] > b[k] /\ \A j \in 1..(k - 1) : a[j] = b[j]

\* the sum without the carry into the higher octets
IpAdd_NoCarry(ip, k) == <<ip[1], ip[2], ip[3], (ip[4] + k) % (U8_MAX + 1)>>

\* Ipv4Addr::from(u32::from(ip) + k), for a sum that stays an address
IpAdd(ip, k) ==
    LET d == ip[4] + k
        c == ip[3] + (d \div (U8_MAX + 1))
        b == ip[2] + (c \div (U8_MAX + 1))
        a == ip[1] + (b \div (U8_MAX + 1))
    IN <<a, b % (U8_MAX + 1), c % (U8_MAX + 1), d % (U8_MAX + 1)>>

\* how many values lo..=hi runs through, counted up to n (n below 2^24)
RangeCount(lo, hi, n) ==
    IF hi[1] - lo[1] > 1 THEN n
    ELSE Min(n, (((hi[1] - lo[1]) * (U8_MAX + 1) + (hi[2] - lo[2]))
                    * (U8_MAX + 1) + (hi[3] - lo[3])) * (U8_MAX + 1)
                 + (hi[4] - lo[4]) + 1)

\* for ip_int in lo..=hi { results.push(Ipv4Addr::from(ip_int)) }, of which
\* the first n
RangeList(lo, hi, n) == [k \in 1..RangeCount(lo, hi, n) |-> IpAdd(lo, k - 1)]

\* outcomes of a parser: the vector it returns, or the panic of an expect or
\* a panic!.  Of an expansion longer than MaxExpand the list holds the
\* first MaxExpand addresses (whole = FALSE)
Returned(list, whole) == [status |-> "Ok", list |-> list, whole |-> whole]

Panicked == [status |-> "Panic", list |-> <<>>, whole |-> TRUE]

Expansion(lo, hi) ==
    LET list == RangeList(lo, hi, MaxExpand)
    IN Returned(list, list[Len(list)] = hi)

Pow2(k) == IF k = 0 THEN 1 ELSE IF k = 1 THEN 2 ELSE IF k = 2 THEN 4
           ELSE IF k = 3 THEN 8 ELSE IF k = 4 THEN 16 ELSE IF k = 5 THEN 32
           ELSE IF k = 6 THEN 64 ELSE IF k = 7 THEN 128 ELSE 256

\* the number of host bits that octet k has under a prefix of n bits
HostBits(n, k) ==
    LET net == n - 8 * (k - 1)
    IN IF net <= 0 THEN 8 ELSE IF net >= 8 THEN 0 ELSE 8 - net

\* Ipv4Network::network and ::broadcast
Network(ip, n) ==
    [k \in 1..4 |-> (ip[k] \div Pow2(HostBits(n, k))) * Pow2(HostBits(n, k))]

Broadcast(ip, n) ==
    [k \in 1..4 |-> Network(ip, n)[k] + Pow2(HostBits(n, k)) - 1]

\* Ipv4Network::from_str rejects a prefix above the width of an address
MAX_PREFIX == 32

\* <Ipv4Network as FromStr>::from_str on "addr/prefix": << >> for Err
ParseIpv4Network(s) ==
    LET parts == Split(s, "/")
        addr == ParseIpv4Addr(parts[1])
        prefix == ParseUnsigned(parts[2], U8_MAX)
    IN IF Len(parts) = 2 /\ addr # <<>> /\ prefix # ParseError
          /\ prefix <= MAX_PREFIX
       THEN <<addr, prefix>>
       ELSE <<>>

\* parsed_ip.to_string()
RECURSIVE DecChars(_)
DecChars(n) ==
    IF n < 10 THEN <<DigitChars[n + 1]>>
    ELSE DecChars(n \div 10) \o <<DigitChars[(n % 10) + 1]>>

IpToString(ip) ==
    DecChars(ip[1]) \o <<".">> \o DecChars(ip[2]) \o <<".">>
        \o DecChars(ip[3]) \o <<".">> \o DecChars(ip[4])

\* str::contains(&str) and str::ends_with(&str)
ContainsText(s, t) ==
    \E k \in 0..(Len(s) - Len(t)) : SubSeq(s, k + 1, k + Len(t)) = t

EndsWithText(s, t) ==
    Len(s) >= Len(t) /\ SubSeq(s, Len(s) - Len(t) + 1, Len(s)) = t

\* ranges.push(0..=255) for "X", ranges.push(value..=value) otherwise;
\* << >> where octet.parse::<u8>() fails
OctetRange(octet) ==
    IF octet = <<"X">> THEN [k \in 1..(U8_MAX + 1) |-> k - 1]
    ELSE LET value == ParseUnsigned(octet, U8_MAX)
         IN IF value = ParseError THEN <<>> ELSE <<value>>

\* for a in ranges[0] { for b in ranges[1] { for c in ranges[2] {
\*     for d in ranges[3] { .. } } } }: the addresses in the order the loops
\* visit them
NestedLoops(r) ==
    LET n2 == Len(r[2])
        n3 == Len(r[3])
        n4 == Len(r[4])
    IN [i \in 1..(Len(r[1]) * n2 * n3 * n4) |->
          <<r[1][((i - 1) \div (n2 * n3 * n4)) + 1],
            r[2][(((i - 1) \div (n3 * n4)) % n2) + 1],
            r[3][(((i - 1) \div n4) % n3) + 1],
            r[4][((i - 1) % n4) + 1]>>]

\* if !parsed_ip.to_string().ends_with(".0")
\*    || input.contains(&parsed_ip.to_string()) { results.push(parsed_ip) }
KeepsAddr(input, ip) ==
    \/ ~EndsWithText(IpToString(ip), <<".", "0">>)
    \/ ContainsText(input, IpToString(ip))

Wildcard(input, normalized) ==
    LET octets == Split(normalized, ".")
        ranges == [k \in 1..Len(octets) |-> OctetRange(octets[k])]
        Keep(ip) == KeepsAddr(input, ip)
    IN IF Len(octets) # 4 THEN Panicked
       ELSE IF \E k \in 1..4 : ranges[k] = <<>> THEN Panicked
       ELSE Returned(SelectSeq(NestedLoops(ranges), Keep), TRUE)

IpRange(normalized) ==
    LET parts == Split(normalized, "-")
        start == ParseIpv4Addr(parts[1])
        end == ParseIpv4Addr(parts[2])
    IN IF Len(parts) # 2 THEN Returned(<<>>, TRUE)
       ELSE IF start = <<>> \/ end = <<>> THEN Panicked
       ELSE IF IpGreater(start, end) THEN Panicked
       ELSE Expansion(start, end)

Cidr(normalized) ==
    LET cidr == ParseIpv4Network(normalized)
    IN IF cidr = <<>> THEN Panicked
       ELSE Expansion(Network(cidr[1], cidr[2]), Broadcast(cidr[1], cidr[2]))

Literal(normalized) ==
    LET ip == ParseIpv4Addr(normalized)
    IN IF ip = <<>> THEN Returned(<<>>, TRUE) ELSE Returned(<<ip>>, TRUE)

parse_ip_input(input) ==
    LET normalized_input == ToUpperCase(input)
    IN IF Contains(normalized_input, "-") THEN IpRange(normalized_input)
       ELSE IF Contains(normalized_input, "/") THEN Cidr(normalized_input)
       ELSE IF Contains(normalized_input, "X")
            THEN Wildcard(input, normalized_input)
       ELSE Literal(normalized_input)

\* for port in start..=end { ports.push(port) }
PortsFromTo(start, end) ==
    IF start > end THEN <<>> ELSE [k \in 1..(end - start + 1) |-> start + k - 1]

PortRange(input) ==
    LET parts == Split(input, "-")
        start == ParseUnsigned(parts[1], U16_MAX)
        end == ParseUnsigned(parts[2], U16_MAX)
    IN IF Len(parts) # 2 THEN Returned(<<>>, TRUE)
       ELSE IF start = ParseError \/ end = ParseError THEN Panicked
       ELSE Returned(PortsFromTo(start, end), TRUE)

PortList(input) ==
    LET parts == Split(input, ",")
        port == [k \in 1..Len(parts) |->
                    ParseUnsigned(TrimText(parts[k]), U16_MAX)]
    IN IF \E k \in 1..Len(parts) : port[k] = ParseError THEN Panicked
       ELSE Returned(port, TRUE)

PortLiteral(input) ==
    LET port == ParseUnsigned(input, U16_MAX)
    IN IF port = ParseError THEN Panicked ELSE Returned(<<port>>, TRUE)

parse_port_input(input) ==
    IF Contains(input, "-") THEN PortRange(input)
    ELSE IF Contains(input, ",") THEN PortList(input)
    ELSE PortLiteral(input)

\* ips.iter().flat_map(|ip| ports.iter().map(move |port| AddrData {..}))
\*    .collect()
PortsOf(ip, port_list) ==
    [j \in 1..Len(port_list) |-> [address |-> ip, port |-> port_list[j]]]

\* ips.iter().flat_map(|ip| ports.iter().map(..)): the rows of the
\* addresses number lo to hi, one after the other
RECURSIVE FlatMap(_, _, _, _)
FlatMap(ip_list, port_list, lo, hi) ==
    IF lo > hi THEN <<>>
    ELSE IF lo = hi THEN PortsOf(ip_list[lo], port_list)
    ELSE FlatMap(ip_list, port_list, lo, (lo + hi) \div 2)
            \o FlatMap(ip_list, port_list, ((lo + hi) \div 2) + 1, hi)

\* the port sequence in the outer loop
Compose_PortOuter(ip_list, port_list) ==
    [k \in 1..(Len(ip_list) * Len(port_list)) |->
        [address |-> ip_list[((k - 1) % Len(ip_list)) + 1],
         port |-> port_list[((k - 1) \div Len(ip_list)) + 1]]]

Compose(ip_list, port_list) == FlatMap(ip_list, port_list, 1, Len(ip_list))

\* addr_input: let ips = parse_ip_input(&ip_input);
ParseIp ==
    /\ parse_pc = "ip"
    /\ ips' = parse_ip_input(ip_input)
    /\ parse_pc' = IF ips'.status = "Panic" THEN "panicked" ELSE "port"
    /\ UNCHANGED <<ip_input, port_input, ports, addr_data_list>>
    /\ UNCHANGED <<variant, addr_data, max_concurrent, calVars, pingVars,
                   mgrVars, regVars, conns, discVars, coreVars>>

\* addr_input: let ports = parse_port_input(&port_input);
ParsePort ==
    /\ parse_pc = "port"
    /\ ports' = parse_port_input(port_input)
    /\ parse_pc' = IF ports'.status = "Panic" THEN "panicked" ELSE "compose"
    /\ UNCHANGED <<ip_input, port_input, ips, addr_data_list>>
    /\ UNCHANGED <<variant, addr_data, max_concurrent, calVars, pingVars,
                   mgrVars, regVars, conns, discVars, coreVars>>

\* start_multi_port_server: let addr_data_list: Vec<AddrData> = ..collect()
ComposeEndpoints ==
    /\ parse_pc = "compose"
    /\ addr_data_list' = Compose(ips.list, ports.list)
    /\ parse_pc' = "composed"
    /\ UNCHANGED <<ip_input, port_input, ips, ports>>
    /\ UNCHANGED <<variant, addr_data, max_concurrent, calVars, pingVars,
                   mgrVars, regVars, conns, discVars, coreVars>>

ParseNext ==
    \/ ParseIp
    \/ ParsePort
    \/ ComposeEndpoints

\* the lines a user may type, character by character; a number is typed
\* as DecChars writes it
Dotted(a, b, c, d) == a \o <<".">> \o b \o <<".">> \o c \o <<".">> \o d

Joined(a, sep, b) == a \o sep \o b

\* literal and wildcard forms 10.0.0.<d>, 10.0.X.<d> and 10.0.0; range
\* forms <start>-<end> and one with three parts; CIDR forms <addr>/<prefix>
IpInputs ==
    LET Last == {DecChars(0), DecChars(1), DecChars(3), DecChars(255),
                 DecChars(256), <<"X">>, <<"x">>, <<"a">>}
        Ends == {Dotted(DecChars(10), DecChars(0), DecChars(0), DecChars(d)) :
                    d \in {1, 3, 255, 256}}
                   \cup {Dotted(DecChars(10), DecChars(0), DecChars(1), DecChars(1))}
        One == Dotted(DecChars(10), DecChars(0), DecChars(0), DecChars(1))
        Bases == {Dotted(DecChars(10), DecChars(0), DecChars(0), DecChars(0)),
                  Dotted(DecChars(10), DecChars(0), DecChars(0), DecChars(5)),
                  Dotted(DecChars(0), DecChars(0), DecChars(0), DecChars(0))}
        Prefixes == {DecChars(0), DecChars(24), DecChars(30), DecChars(31),
                     DecChars(32), DecChars(33), <<"a">>, <<>>}
    IN {Dotted(DecChars(10), DecChars(0), DecChars(0), d) : d \in Last}
          \cup {Dotted(DecChars(10), DecChars(0), <<"X">>, DecChars(d)) :
                   d \in {0, 1}}
          \cup {DecChars(10) \o <<".">> \o DecChars(0) \o <<".">> \o DecChars(0)}
          \cup {Joined(a, <<"-">>, b) : a, b \in Ends}
          \cup {Joined(Joined(One, <<"-">>, One), <<"-">>, One)}
          \cup {Joined(a, <<"/">>, n) : a \in Bases, n \in Prefixes}

\* single ports, ranges a-b (one with three parts), lists a,b and a, b
PortInputs ==
    LET Single == {DecChars(0), DecChars(3), DecChars(5), DecChars(80),
                   DecChars(65535), DecChars(65536), <<"a">>, <<>>}
        Ends == {DecChars(3), DecChars(5), DecChars(65536), <<"a">>}
        Items == {DecChars(5), DecChars(80), <<"a">>}
    IN Single
          \cup {Joined(a, <<"-">>, b) : a, b \in Ends}
          \cup {Joined(Joined(DecChars(3), <<"-">>, DecChars(5)), <<"-">>,
                       DecChars(5))}
          \cup {Joined(DecChars(22), <<"-">>, DecChars(23))}
          \cup {Joined(a, sep, b) : a, b \in Items, sep \in {<<",">>, <<",", " ">>}}

\* start_multi_port_server before the manager exists: the two lines have
\* been read, nothing is parsed
ParseInit ==
    /\ ip_input \in IpInputs
    /\ port_input \in PortInputs
    /\ ips = NotParsed
    /\ ports = NotParsed
    /\ addr_data_list = <<>>
    /\ parse_pc = "ip"
    /\ CalRest
    /\ PingRest
    /\ MgrInit
    /\ variant = "core"
    /\ addr_data = <<>>
    /\ max_concurrent = 0

ParseSpec == ParseInit /\ [][ParseNext]_vars

\* ---------------------------------------------------- Worker Calibrator
\* get_thread_factor and what it calls.  SystemMetrics is carried with its
\* fields optimal_threads and total_workers; the measurements in it
\* (max_cpu_usage, memory_usage_mb, total_tasks, total_threads) are written
\* and read in the same way and decide nothing below.  CPU percentages are
\* whole numbers.

MaxTested == 5

\* let max_workers = base_workers * 32
WORKER_FACTOR == 32
\* let target_cpu = 80.0
target_cpu == 80
\* usize::MAX, cut down to the largest integer TLC holds
USIZE_MAX == 2147483647

SystemThreads == {1, 2}

FileOf(line) == [exists |-> TRUE, line |-> line]

Field(key, val) == [key |-> key, val |-> val]

\* the two numbers under each other's key
to_string_Swapped(m) ==
    <<Field("optimal_threads", DecChars(m.total_workers)),
      Field("total_workers", DecChars(m.optimal_threads))>>

\* serde_json::to_string(metrics): the fields of the one JSON object
to_string(m) ==
    <<Field("optimal_threads", DecChars(m.optimal_threads)),
      Field("total_workers", DecChars(m.total_workers))>>

\* the number read without its last digit
ParseJsonUnsigned_DropLast(s) ==
    IF Len(s) < 2 THEN ParseError
    ELSE DigitsValue(SubSeq(s, 1, Len(s) - 1), 0, USIZE_MAX)

\* a JSON number read as usize: digits, no sign, no leading zero
ParseJsonUnsigned(s) ==
    IF s = <<>> \/ (Len(s) > 1 /\ Head(s) = "0") THEN ParseError
    ELSE DigitsValue(s, 0, USIZE_MAX)

ReadErr == [status |-> "Err",
            metrics |-> [optimal_threads |-> 0, total_workers |-> 0]]

ReadOk(m) == [status |-> "Ok", metrics |-> m]

\* serde_json::from_str::<SystemMetrics>(&line): every field once (a
\* missing or repeated field is an error, an unknown one is skipped)
from_str(line) ==
    LET At(key) == {k \in 1..Len(line) : line[k].key = key}
        Val(key) == line[CHOOSE k \in At(key) : TRUE].val
        Keys == {"optimal_threads", "total_workers"}
    IN IF \E key \in Keys : Cardinality(At(key)) # 1 THEN ReadErr
       ELSE IF \/ ParseJsonUnsigned(Val("optimal_threads")) = ParseError
               \/ ParseJsonUnsigned(Val("total_workers")) = ParseError
            THEN ReadErr
       ELSE ReadOk([optimal_threads |-> ParseJsonUnsigned(Val("optimal_threads")),
                    total_workers |-> ParseJsonUnsigned(Val("total_workers"))])

\* read_metrics_from_file: File::open, then the first line if there is one
read_metrics_from_file(file, open_ok) ==
    IF ~file.exists \/ ~open_ok THEN ReadErr
    ELSE IF file.line = <<>> THEN ReadErr
    ELSE from_str(file.line)

\* let max_workers = base_workers * 32
Cap == system_threads * WORKER_FACTOR

\* the scale of the next step in tenths: distance_factor is
\* ((target_cpu - cpu) / target_cpu).max(0.1), compared with .8 .6 .4 .2
Scale10(cpu) ==
    IF cpu >= target_cpu THEN 9
    ELSE IF (target_cpu - cpu) * 10 > 8 * target_cpu THEN 40
    ELSE IF (target_cpu - cpu) * 10 > 6 * target_cpu THEN 30
    ELSE IF (target_cpu - cpu) * 10 > 4 * target_cpu THEN 20
    ELSE IF (target_cpu - cpu) * 10 > 2 * target_cpu THEN 15
    ELSE 12

\* (workers as f32 * scale) as usize
Scaled(workers, cpu) == (workers * Scale10(cpu)) \div 10

\* SystemMetrics { optimal_threads: best_workers,
\*                 total_workers: total_tested, .. }
MetricsOf(sr) ==
    [optimal_threads |-> sr.best_workers, total_workers |-> sr.total_tested]

CurrentCall == cal_log[Len(cal_log)]

Logged(call) == [cal_log EXCEPT ![Len(cal_log)] = call]

\* what one run_benchmark(workers) and the scoring after it leave behind
Benchmarked(workers, cpu, improved, next) ==
    [next_workers |-> next,
     best_workers |-> IF improved THEN workers ELSE search.best_workers,
     total_tested |-> search.total_tested + 1,
     tested |-> Append(search.tested, [workers |-> workers, cpu |-> cpu])]

calRest == <<variant, addr_data, max_concurrent, parseVars, pingVars,
             mgrVars, regVars, conns, discVars, coreVars>>

\* a call of get_thread_factor begins
CallGetThreadFactor ==
    /\ cal_pc = "idle"
    /\ cal_pc' = "read"
    /\ cal_log' = (IF cal_log = <<>> THEN <<>> ELSE <<CurrentCall>>)
                      \o <<[no_file |-> ~metrics_file.exists, opened |-> FALSE,
                             benchmarks |-> 0, searched |-> FALSE,
                             outcome |-> "running", value |-> 0]>>
    /\ UNCHANGED <<metrics_file, system_threads, search, calRest>>

\* if let Ok(metrics) = read_metrics_from_file() { return .. }, and on Err
\* the entry into find_optimal_workers
ReadMetrics(open_ok) ==
    /\ cal_pc = "read"
    /\ LET r == read_metrics_from_file(metrics_file, open_ok)
       IN IF r.status = "Ok"
          THEN /\ cal_pc' = "idle"
               /\ cal_log' = Logged([CurrentCall EXCEPT
                                        !.opened = TRUE,
                                        !.outcome = "returned",
                                        !.value = r.metrics.optimal_threads])
               /\ search' = search
          ELSE /\ cal_pc' = "loop"
               /\ cal_log' = Logged([CurrentCall EXCEPT
                                        !.opened = metrics_file.exists /\ open_ok,
                                        !.searched = TRUE])
               /\ search' = [next_workers |-> system_threads,
                             best_workers |-> system_threads,
                             total_tested |-> 0,
                             tested |-> <<>>]
    /\ UNCHANGED <<metrics_file, system_threads, calRest>>

\* one pass of the while loop that reaches its end
SearchIteration(cpu, improved) ==
    /\ cal_pc = "loop"
    /\ search.next_workers <= Cap
    /\ search.total_tested < MaxTested
    /\ LET workers == search.next_workers
           scaled == Scaled(workers, cpu)
           unstuck == IF scaled = workers THEN workers + (workers \div 3)
                      ELSE scaled
       IN search' = Benchmarked(workers, cpu, improved, Min(unstuck, Cap))
    /\ cal_log' = Logged([CurrentCall EXCEPT !.benchmarks = @ + 1])
    /\ UNCHANGED <<metrics_file, cal_pc, system_threads, calRest>>

\* one pass of the while loop that leaves by the break: more than four
\* tested and no improvement for five seconds, so none in this pass
SearchBreak(cpu) ==
    /\ cal_pc = "loop"
    /\ search.next_workers <= Cap
    /\ search.total_tested < MaxTested
    /\ search.total_tested + 1 > 4
    /\ search' = Benchmarked(search.next_workers, cpu, FALSE,
                             Scaled(search.next_workers, cpu))
    /\ cal_log' = Logged([CurrentCall EXCEPT !.benchmarks = @ + 1])
    /\ cal_pc' = "fine_tune"
    /\ UNCHANGED <<metrics_file, system_threads, calRest>>

\* the while condition fails on start_time.elapsed(): the 15 seconds are
\* over, and the fine-tune phase, under the same condition, is skipped
SearchTimeout ==
    /\ cal_pc \in {"loop", "fine_tune"}
    /\ cal_pc' = "open1"
    /\ UNCHANGED <<metrics_file, system_threads, search, cal_log, calRest>>

\* the fine-tune phase: one more run_benchmark, next_workers = workers +- 2.
\* workers - 2 below 2 overflows usize: a panic where overflow is checked,
\* a wrapped value (never read again) where it is not
FineTune(cpu, improved, overflow_checks) ==
    /\ cal_pc = "fine_tune"
    /\ search.next_workers <= Cap
    /\ LET workers == search.next_workers
           down == cpu >= target_cpu
           next == IF ~down THEN workers + 2
                   ELSE IF workers >= 2 THEN workers - 2
                   ELSE USIZE_MAX
       IN /\ search' = Benchmarked(workers, cpu, improved, next)
          /\ IF down /\ workers < 2 /\ overflow_checks
             THEN /\ cal_pc' = "idle"
                  /\ cal_log' = Logged([CurrentCall EXCEPT
                                           !.benchmarks = @ + 1,
                                           !.outcome = "overflow_panic"])
             ELSE /\ cal_pc' = "open1"
                  /\ cal_log' = Logged([CurrentCall EXCEPT
                                           !.benchmarks = @ + 1])
    /\ UNCHANGED <<metrics_file, system_threads, calRest>>

\* the fine-tune phase is not entered: next_workers is above the cap
SkipFineTune ==
    /\ cal_pc = "fine_tune"
    /\ search.next_workers > Cap
    /\ cal_pc' = "open1"
    /\ UNCHANGED <<metrics_file, system_threads, search, cal_log, calRest>>

\* write_metrics_to_file, first half: OpenOptions .. truncate(true)
\* .open("metrics.txt")?, and at both call sites .expect(..) on the result
WriteOpen(open_ok) ==
    /\ cal_pc \in {"open1", "open2"}
    /\ IF open_ok
       THEN /\ metrics_file' = FileOf(<<>>)
            /\ cal_pc' = IF cal_pc = "open1" THEN "flush1" ELSE "flush2"
            /\ UNCHANGED <<search, cal_log>>
       ELSE /\ cal_pc' = "idle"
            /\ cal_log' = Logged([CurrentCall EXCEPT
                                     !.outcome = "write_panic"])
            /\ search' = NoSearch
            /\ UNCHANGED metrics_file
    /\ UNCHANGED <<system_threads, calRest>>

\* write_metrics_to_file, second half: writeln! fills the BufWriter, Ok(())
\* is returned, and the drop of the writer flushes with its error ignored:
\* `landed` of the fields reach the file.  After the second write
\* get_thread_factor returns `optimal`
WriteFlush(landed) ==
    /\ cal_pc \in {"flush1", "flush2"}
    /\ metrics_file' = FileOf(SubSeq(to_string(MetricsOf(search)), 1, landed))
    /\ IF cal_pc = "flush1"
       THEN /\ cal_pc' = "open2"
            /\ UNCHANGED <<search, cal_log>>
       ELSE /\ cal_pc' = "idle"
            /\ cal_log' = Logged([CurrentCall EXCEPT
                                     !.outcome = "returned",
                                     !.value = search.best_workers])
            /\ search' = NoSearch
    /\ UNCHANGED <<system_threads, calRest>>

\* the process is killed inside a call
Crash ==
    /\ cal_pc # "idle"
    /\ cal_pc' = "idle"
    /\ cal_log' = Logged([CurrentCall EXCEPT !.outcome = "crashed"])
    /\ search' = NoSearch
    /\ UNCHANGED <<metrics_file, system_threads, calRest>>

\* result.cpu_usage of a run_benchmark: the calls of get_thread_factor and
\* its file are followed with a search whose passes measure one value below
\* the target, and whose last benchmark measures a value on either side
CalCpuValues == {25}

CalLastCpuValues == {25, 85}

CalNext ==
    \/ CallGetThreadFactor
    \/ \E open_ok \in BOOLEAN : ReadMetrics(open_ok)
    \/ \E cpu \in CalCpuValues, improved \in BOOLEAN :
          SearchIteration(cpu, improved)
    \/ \E cpu \in CalLastCpuValues : SearchBreak(cpu)
    \/ SearchTimeout
    \/ \E cpu \in CalLastCpuValues, improved \in BOOLEAN,
          overflow_checks \in BOOLEAN :
          FineTune(cpu, improved, overflow_checks)
    \/ SkipFineTune
    \/ \E open_ok \in BOOLEAN : WriteOpen(open_ok)
    \/ \E landed \in 0..2 : WriteFlush(landed)
    \/ Crash

\* the metrics.txt a call may find
StoredMetrics ==
    {[optimal_threads |-> 42, total_workers |-> 7],
     [optimal_threads |-> 0, total_workers |-> 1]}

CalFiles ==
    {NoFile, FileOf(<<>>)}
        \cup {FileOf(to_string(m)) : m \in StoredMetrics}
        \cup {FileOf(SubSeq(to_string(m), 1, 1)) : m \in StoredMetrics}
        \cup {FileOf(<<Field("optimal_threads", <<"4", "x">>),
                       Field("total_workers", <<"7">>)>>)}

CalInit ==
    /\ metrics_file \in CalFiles
    /\ cal_pc = "idle"
    /\ system_threads \in SystemThreads
    /\ search = NoSearch
    /\ cal_log = <<>>
    /\ ParseRest
    /\ PingRest
    /\ MgrInit
    /\ variant = "core"
    /\ addr_data = <<>>
    /\ max_concurrent = 0

CalSpec == CalInit /\ [][CalNext]_vars

\* result.cpu_usage of a run_benchmark, one value for each way the search
\* can go on: scale 4.0, 2.0, 1.2, and the 0.9 of a value above the target
SearchCpuValues == {10, 40, 70, 85}

\* one call of get_thread_factor on a machine without metrics.txt: the call
\* goes through find_optimal_workers
SearchInit == CalInit /\ metrics_file = NoFile

SearchNext ==
    \/ cal_log = <<>> /\ CallGetThreadFactor
    \/ \E open_ok \in BOOLEAN : ReadMetrics(open_ok)
    \/ \E cpu \in SearchCpuValues, improved \in BOOLEAN :
          SearchIteration(cpu, improved)
    \/ \E cpu \in SearchCpuValues : SearchBreak(cpu)
    \/ SearchTimeout
    \/ \E cpu \in SearchCpuValues, improved \in BOOLEAN,
          overflow_checks \in BOOLEAN :
          FineTune(cpu, improved, overflow_checks)
    \/ SkipFineTune
    \/ \E open_ok \in BOOLEAN : WriteOpen(open_ok)
    \/ \E landed \in 0..2 : WriteFlush(landed)

SearchSpec == SearchInit /\ [][SearchNext]_vars

\* ------------------------------------------- start_multi_port_server
\* let max_workers = get_thread_factor() has returned
FactorReturned ==
    /\ cal_pc = "idle"
    /\ cal_log # <<>>
    /\ CurrentCall.outcome = "returned"

\* let (ips_vec, ports_vec) = addr_input(): the two lines are read
AddrInput(ip_line, port_line) ==
    /\ FactorReturned
    /\ parse_pc = "off"
    /\ ip_input' = ip_line
    /\ port_input' = port_line
    /\ parse_pc' = "ip"
    /\ UNCHANGED <<ips, ports, addr_data_list>>
    /\ UNCHANGED <<variant, addr_data, max_concurrent, calVars, pingVars,
                   mgrVars, regVars, conns, discVars, coreVars>>

\* a manager that never gets less than one permit
NewListenerManager_Validated ==
    /\ parse_pc = "composed"
    /\ addr_data' = addr_data_list
    /\ max_concurrent' = IF CurrentCall.value = 0 THEN 1 ELSE CurrentCall.value
    /\ permits' = max_concurrent'
    /\ listener' = [i \in 1..Len(addr_data_list) |-> "Unbound"]
    /\ retry_count' = [i \in 1..Len(addr_data_list) |-> 0]
    /\ parse_pc' = "started"
    /\ UNCHANGED <<ip_input, port_input, ips, ports, addr_data_list>>
    /\ UNCHANGED <<variant, calVars, pingVars, next_ep, run_pc, run_result,
                   shutdown_tx, regVars, conns, discVars, coreVars>>

\* *network_manager = ListenerManager::new(addr_data_list, max_workers);
\* core.start().await: run begins with Semaphore::new(self.max_concurrent)
NewListenerManager ==
    /\ parse_pc = "composed"
    /\ addr_data' = addr_data_list
    /\ max_concurrent' = CurrentCall.value
    /\ permits' = max_concurrent'
    /\ listener' = [i \in 1..Len(addr_data_list) |-> "Unbound"]
    /\ retry_count' = [i \in 1..Len(addr_data_list) |-> 0]
    /\ parse_pc' = "started"
    /\ UNCHANGED <<ip_input, port_input, ips, ports, addr_data_list>>
    /\ UNCHANGED <<variant, calVars, pingVars, next_ep, run_pc, run_result,
                   shutdown_tx, regVars, conns, discVars, coreVars>>

\* core.start() has been called: run is under way
Started == parse_pc = "started"

\* the lines typed at the two prompts: one address; one port, two ports, or
\* nothing
StartIpInputs ==
    {Dotted(DecChars(127), DecChars(0), DecChars(0), DecChars(1))}

StartPortInputs ==
    {DecChars(8080), Joined(DecChars(8080), <<"-">>, DecChars(8081)), <<>>}

\* the metrics.txt left by an earlier start: a whole record
StartFiles ==
    {FileOf(to_string(m)) :
        m \in StoredMetrics \cup {[optimal_threads |-> 1, total_workers |-> 3]}}

\* the server is started where a metrics.txt is cached: the worker count
\* comes from the file, the endpoints from the two lines
StartInit ==
    /\ metrics_file \in StartFiles
    /\ cal_pc = "idle"
    /\ system_threads \in SystemThreads
    /\ search = NoSearch
    /\ cal_log = <<>>
    /\ ParseRest
    /\ PingRest
    /\ MgrInit
    /\ addr_data = <<>>
    /\ max_concurrent = 0

StartNext ==
    \/ cal_log = <<>> /\ CallGetThreadFactor
    \/ ReadMetrics(TRUE)
    \/ \E ip_line \in StartIpInputs, port_line \in StartPortInputs :
          AddrInput(ip_line, port_line)
    \/ ParseIp
    \/ ParsePort
    \/ ComposeEndpoints
    \/ NewListenerManager
    \/ Started /\ SpawnListener
    \/ Started /\ RunReturn
    \/ Started /\ AbortRun
    \/ Started /\ Shutdown
    \/ \E i \in Endpoints : Started /\ BindOk(i)
    \/ \E i \in Endpoints, e \in BindErrors : Started /\ BindFail(i, e)
    \/ \E i \in Endpoints : Started /\ ShutdownRecv(i)
    \/ \E i \in Endpoints : Started /\ RetryWake(i)
    \/ \E i \in Endpoints, addr \in MgrPeers :
          Started /\ Len(conns) < MaxAccepts /\ AcceptOk(i, addr)
    \/ \E i \in Endpoints, e \in AcceptErrors : Started /\ AcceptErr(i, e)
    \/ \E i \in Endpoints : Started /\ AcceptTimeout(i)

StartSpec == StartInit /\ [][StartNext]_vars

\* ------------------------------------------------ HostTracker, ping_range
MaxPingIps == 3
MaxClock == 2

\* the addresses a scan is given, and what Local::now() may read: the wall
\* clock, which can be set back between two calls
PingIps == {<<10, 0, 0, 1>>, <<10, 0, 0, 2>>}

Clock == 0..MaxClock

\* last_down: None
NoTime == -1

\* hosts.entry(ip).or_insert(HostStatus { last_alive: now, last_down: None,
\*     current_state: HostState::Alive, total_downtime: 0 })
HostEntry(ip, now) ==
    IF ip \in DOMAIN hosts THEN hosts[ip]
    ELSE [last_alive |-> now, last_down |-> NoTime,
          current_state |-> "Alive", total_downtime |-> 0]

\* now.signed_duration_since(down_time).to_std().unwrap_or_default()
Downtime(now, down_time) == IF now >= down_time THEN now - down_time ELSE 0

\* match (is_alive, status.current_state): the status after the match
Updated(status, is_alive, now) ==
    IF is_alive /\ status.current_state = "Dead"
    THEN [status EXCEPT
            !.last_alive = now,
            !.current_state = "Alive",
            !.total_downtime =
                IF status.last_down # NoTime
                THEN @ + Downtime(now, status.last_down) ELSE @]
    ELSE IF ~is_alive /\ status.current_state = "Alive"
    THEN [status EXCEPT !.last_down = now, !.current_state = "Dead"]
    ELSE status

\* the event handed to log_state_change, "none" where it is not called
EventOf(status, is_alive) ==
    IF is_alive /\ status.current_state = "Dead" THEN "RECOVERED"
    ELSE IF ~is_alive /\ status.current_state = "Alive" THEN "DOWN"
    ELSE "none"

\* the line log_state_change writes, and the line of log_alive_host
StateLine(ip, event, status) ==
    [ip |-> ip, event |-> event, total_downtime |-> status.total_downtime]

ScanLine(ip) == [ip |-> ip, event |-> "SYN scan success", total_downtime |-> 0]

\* one pass of `for ip in ips`: the ports are scanned (is_alive: one of them
\* answered), update_host_status(ip, is_alive) is called at the time `now`
\* and, for a host that answered, log_alive_host.  log_ok: host_status.log
\* can be opened and written by log_state_change, whose Err is unwrapped;
\* scan_ok: the same for log_alive_host, whose Err ends ping_range
ScanHost(is_alive, now, log_ok, scan_ok) ==
    /\ ping.pc = "scan"
    /\ ping.idx <= Len(ping.ips)
    /\ LET ip == ping.ips[ping.idx]
           status == HostEntry(ip, now)
           event == EventOf(status, is_alive)
           after == Updated(status, is_alive, now)
           logged == IF event = "none" THEN host_log
                     ELSE Append(host_log, StateLine(ip, event, after))
       IN /\ hosts' = MapInsert(hosts, ip, after)
          /\ IF event # "none" /\ ~log_ok
             THEN /\ host_log' = host_log
                  /\ ping' = [ping EXCEPT !.pc = "panicked"]
             ELSE IF is_alive /\ ~scan_ok
             THEN /\ host_log' = logged
                  /\ ping' = [ping EXCEPT !.pc = "failed"]
             ELSE /\ host_log' = IF is_alive THEN Append(logged, ScanLine(ip))
                                 ELSE logged
                  /\ ping' = [ping EXCEPT !.idx = @ + 1]
    /\ UNCHANGED <<variant, addr_data, max_concurrent, parseVars, calVars,
                   mgrVars, regVars, conns, discVars, coreVars>>

\* Ok(alive_ips): the tracker is dropped with the call
PingReturn ==
    /\ ping.pc = "scan"
    /\ ping.idx > Len(ping.ips)
    /\ ping' = [ping EXCEPT !.pc = "done"]
    /\ UNCHANGED <<hosts, host_log>>
    /\ UNCHANGED <<variant, addr_data, max_concurrent, parseVars, calVars,
                   mgrVars, regVars, conns, discVars, coreVars>>

PingNext ==
    \/ \E is_alive \in BOOLEAN, now \in Clock, log_ok \in BOOLEAN,
          scan_ok \in BOOLEAN : ScanHost(is_alive, now, log_ok, scan_ok)
    \/ PingReturn

\* ping_range(ips, ..) has made its tracker: let tracker = HostTracker::new()
PingInit ==
    /\ hosts = <<>>
    /\ host_log = <<>>
    /\ ping \in [ips : SeqsUpTo(PingIps, MaxPingIps), idx : {1},
                 pc : {"scan"}]
    /\ ParseRest
    /\ CalRest
    /\ MgrInit
    /\ variant = "core"
    /\ addr_data = <<>>
    /\ max_concurrent = 0

PingSpec == PingInit /\ [][PingNext]_vars

\* ------------------------------------------------------------- claims
Live == {i \in Endpoints : HoldsPermit(i)}

\* C1: the listener tasks spawned and not yet terminated never outnumber
\* max_concurrent, and permits held + permits free = max_concurrent in
\* every state.
C1_PermitCeiling ==
    /\ Cardinality(Live) <= max_concurrent
    /\ permits >= 0
    /\ permits + Cardinality(Live) = max_concurrent

\* a permit returned by an ended task is held by a later one, none is free
C1_Witness ==
    /\ Len(addr_data) = 2
    /\ max_concurrent = 1
    /\ Terminated(1)
    /\ HoldsPermit(2)
    /\ permits = 0

\* C2: with max_concurrent >= 1, every endpoint of the sequence is eventually
\* given a listener task (as long as run is not aborted), whatever became of
\* the binds before it.
C2_EveryEndpointSpawned ==
    \A i \in 1..MaxEndpoints :
        (max_concurrent >= 1 /\ i \in Endpoints)
            ~> ((i \in Endpoints /\ listener[i] # "Unbound")
                  \/ run_pc = "aborted")

BindFails(i) == \E e \in BindErrors : BindFail(i, e)

C4_OnlyShutdownCloses ==
    \A i \in Endpoints : listener[i] = "Closed" => shutdown_tx = "dropped"

\* C5: once shutdown has been called, every listener eventually is out of
\* its accept loop.
C5_ShutdownClosesListeners ==
    shutdown_called ~> (\A i \in Endpoints : listener[i] # "Accepting")

\* C6: run has returned only if every listener task has terminated, and
\* then with Ok; it never yields an error.
C6_ReturnsAfterAllOk ==
    /\ run_result # "Err"
    /\ run_pc = "returned" =>
          /\ run_result = "Ok"
          /\ next_ep = Len(addr_data) + 1
          /\ \A i \in Endpoints : Terminated(i)

\* run returned after bind failures of two listeners
C6_Witness ==
    /\ run_pc = "returned"
    /\ Len(addr_data) = 2
    /\ \A i \in Endpoints : listener[i] = "BindFailed"
    /\ Registered(EADDRINUSE)

OneWay == {<<"Unbound", "Binding">>, <<"Binding", "BindFailed">>,
           <<"Binding", "Accepting">>, <<"Accepting", "Closed">>}

Spawned(i) ==
    /\ Len(conns') = Len(conns) + 1
    /\ conns'[Len(conns')].listener = i

\* C7: every listener moves only forward along Unbound -> Binding ->
\* {BindFailed | Accepting -> Closed}; a failed bind takes it to BindFailed
\* (it is not bound again); and a handler is spawned only by a listener that
\* is Accepting.
C7_OneWayListener ==
    [][\A i \in Endpoints :
          /\ listener'[i] # listener[i]
                => <<listener[i], listener'[i]>> \in OneWay
          /\ BindFails(i) => listener'[i] = "BindFailed"
          /\ Spawned(i) => listener[i] = "Accepting" /\ listener'[i] = "Accepting"
      ]_vars

\* C8: every handler reads its socket at most once.
C8_AtMostOneRead ==
    \A c \in Conns : conns[c].reads <= 1

\* C9: every connection handler eventually finishes (and with it drops its
\* socket), whatever the peer does.
C9_HandlerTerminates ==
    \A c \in 1..MaxConns :
        (Len(conns) >= c) ~> (Len(conns) >= c /\ conns[c].pc = "done")

Past(c, pcs) == conns[c].pc \in pcs

\* C10: a handler submits at most one discovery record; it has submitted one
\* exactly when its probe was sent and its read returned n > 0 bytes, and
\* then before the response is written; the record is keyed by the peer
\* address given by accept.
C10_RecordOnceWhenRead ==
    /\ \A c \in Conns :
         /\ conns[c].records <= 1
         /\ conns[c].records = 1
               <=> /\ conns[c].probe = "ok"
                   /\ conns[c].last_read = "data"
                   /\ Past(c, {"inserted", "respond", "done"})
         /\ conns[c].response.status # "none" => conns[c].pc = "done"
         /\ conns[c].records = 1 => conns[c].addr \in DOMAIN discoveries
    /\ DOMAIN discoveries = {conns[c].addr : c \in {d \in Conns :
                                                    conns[d].records = 1}}
    /\ Len(log_file) <= Cardinality({c \in Conns : conns[c].records = 1})

\* a handler that read bytes, recorded them under its peer's address and
\* wrote its response, beside one whose read returned 0 bytes
C10_Witness ==
    \E c, d \in Conns :
        /\ conns[c].pc = "done" /\ conns[c].records = 1
        /\ conns[c].response.status = "written"
        /\ conns[c].addr \in DOMAIN discoveries
        /\ conns[d].pc = "done" /\ conns[d].last_read = "eof"
        /\ conns[d].records = 0

\* C11: a handler whose probe could not be sent does nothing more: it has
\* read nothing, submitted no discovery record and written no response.
C11_ProbeFailureEndsHandler ==
    \A c \in Conns :
        conns[c].probe = "fail"
            => /\ conns[c].reads = 0
               /\ conns[c].records = 0
               /\ conns[c].response.status = "none"
               /\ issued = {}

\* C12: the port written into a response is the local port of the listener
\* that accepted the connection.
C12_ResponseNamesLocalPort ==
    \A c \in Conns :
        conns[c].response.status = "written"
            => conns[c].response.port = addr_data[conns[c].listener].port

CallsFor(a) == {k \in 1..Len(calls) : calls[k].addr = a}

LastCall(a) == CHOOSE k \in CallsFor(a) : \A j \in CallsFor(a) : j <= k

\* a call that holds the lock and has not updated the map yet
MapUpdatePending == \E c \in Conns : conns[c].pc = "locked"

\* C13: whenever no call is between taking the lock and its map update, the
\* discovery map has an entry for exactly the peer addresses record_service
\* was called with, and the entry of each is the payload of the last call
\* made with that address.
C13_MapHoldsLastCall ==
    ~MapUpdatePending
        => /\ DOMAIN discoveries = {calls[k].addr : k \in 1..Len(calls)}
           /\ \A a \in DOMAIN discoveries :
                  discoveries[a] = calls[LastCall(a)].content

\* two handlers recorded different payloads for one peer address, and the
\* map holds the second
C13_Witness ==
    /\ Len(calls) = 2
    /\ calls[1].addr = calls[2].addr
    /\ calls[1].content # calls[2].content
    /\ \A c \in Conns : conns[c].pc = "done"
    /\ discoveries[calls[2].addr] = calls[2].content

InCall == {c \in Conns : conns[c].pc \in {"locked", "inserted"}}

Serialized == Cardinality(InCall) <= 1

IsPrefix(s, t) == Len(s) <= Len(t) /\ SubSeq(t, 1, Len(s)) = s

LogEntryOf(call) ==
    [ip |-> call.addr.ip, port |-> call.addr.port, separator |-> 50,
     content |-> Trim(call.content)]

LogEntriesFor(a) ==
    {k \in 1..Len(log_file) :
        log_file[k].ip = a.ip /\ log_file[k].port = a.port}

LatestLogEntry(a) ==
    log_file[CHOOSE k \in LogEntriesFor(a) : \A j \in LogEntriesFor(a) : j <= k]

\* C14 as stated: calls are serialized, and, no call being in progress, the
\* latest log entry of every peer that has one carries the (trimmed) payload
\* the map holds for that peer.
C14_LatestLogEntryIsMapPayload ==
    /\ Serialized
    /\ InCall = {}
         => \A a \in DOMAIN discoveries :
               LogEntriesFor(a) # {}
                  => LatestLogEntry(a).content = Trim(discoveries[a])

Appended(k) == conns[calls[k].by].logged = "ok"

RECURSIVE AppendedCalls(_)
AppendedCalls(n) ==
    IF n = 0 THEN <<>>
    ELSE IF Appended(n)
         THEN Append(AppendedCalls(n - 1), LogEntryOf(calls[n]))
         ELSE AppendedCalls(n - 1)

\* C14 amended: calls are serialized (at most one call is between taking
\* the lock and its end), every step leaves the log as it was or longer by
\* entries at its end, and the log is, in the order of the calls, one entry
\* with the trimmed payload for every call whose append succeeded: the
\* latest entry of a peer is the payload of its latest call that was
\* appended, which is the map's only if that was the peer's latest call.
C14_SerializedLogOfAppendedCalls ==
    [][/\ Serialized'
       /\ IsPrefix(log_file, log_file')
       /\ log_file' = AppendedCalls(Len(calls))']_vars

\* one handler waits for the lock while another, inside its call, holds it
C14_Witness ==
    \E c, d \in Conns :
        /\ conns[c].pc = "record"
        /\ conns[d].pc \in {"locked", "inserted"}
        /\ disc_lock = d

\* C15: a handler whose record_service could not append to the log file has
\* its payload in the map all the same (the map has an entry for its peer),
\* is past the call and on its way to the response, and when it is done its
\* response has been written.
C15_LogFailureSwallowed ==
    \A c \in Conns :
        conns[c].logged = "fail"
            => /\ conns[c].records = 1
               /\ conns[c].addr \in DOMAIN discoveries
               /\ conns[c].pc \in {"respond", "done"}
               /\ conns[c].pc = "done"
                     => conns[c].response.status = "written"

\* the log file could not be opened: nothing logged, the payload in the map,
\* the response written
C15_Witness ==
    \E c \in Conns :
        /\ conns[c].logged = "fail"
        /\ log_file = <<>>
        /\ conns[c].addr \in DOMAIN discoveries
        /\ discoveries[conns[c].addr] # <<>>
        /\ conns[c].pc = "done"
        /\ conns[c].response.status = "written"

ErrorTexts == BindErrors \cup AcceptErrors \cup {TIMEOUT_TEXT}

\* a step in which some listener task calls register_error(text)
RegistersText(text) ==
    \/ \E i \in Endpoints : BindFail(i, text) \/ AcceptErr(i, text)
    \/ text = TIMEOUT_TEXT /\ \E i \in Endpoints : AcceptTimeout(i)

\* C17: every step keeps every entry of the registry, id and text, and a
\* step that registers a text the registry already holds leaves the
\* registry as it was.
C17_RegistryAppendOnly ==
    [][/\ \A id \in DOMAIN errors :
            id \in DOMAIN errors' /\ errors'[id] = errors[id]
       /\ \A text \in ErrorTexts :
            (RegistersText(text) /\ Registered(text)) => errors' = errors
      ]_vars

\* a listener has given up after registering the same bind error three
\* times, and the registry holds that text once beside two other texts
C17_Witness ==
    /\ \E i \in Endpoints : listener[i] = "BindFailed" /\ retry_count[i] = 2
    /\ Cardinality(DOMAIN errors) = 3
    /\ \A text \in ErrorTexts : Registered(text)

\* the endpoint sequence names one socket address twice, and there are
\* permits for both listeners
DuplicateEndpoint ==
    /\ Len(addr_data) = 2
    /\ addr_data[1] = addr_data[2]
    /\ max_concurrent >= 2

\* one listener accepts and the other has ended in BindFailed
Settled ==
    \E i, j \in Endpoints :
        i # j /\ listener[i] = "BindFailed" /\ listener[j] = "Accepting"

BothReachedAccepting ==
    \A i \in Endpoints : listener[i] \in {"Accepting", "Closed"}

OneEntry == Cardinality(DOMAIN errors) = 1

NoHostAcceptError == \A e \in AcceptErrors : ~Registered(e)

\* C18: with a duplicate endpoint, and as long as the host fails no accept
\* and run is not aborted, the two listeners never both get to accept, and once one accepts, the
\* other has ended in BindFailed and the registry holds one entry, every
\* step keeps it so: the registry holds that one entry and the listener
\* that bound is still accepting.
C18_DuplicateEndpointSettles ==
    [][(DuplicateEndpoint /\ NoHostAcceptError' /\ run_pc' # "aborted")
          => /\ ~BothReachedAccepting'
             /\ (Settled /\ OneEntry) => (Settled' /\ OneEntry')]_vars

\* a listener task that is suspended in bind, in accept or in the sleep
\* before a retry
ListenerWaits(i) == listener[i] \in {"Binding", "Accepting"}

\* a handler that is suspended in a write or a read of its socket
HandlerOnSocket(c) == conns[c].pc \in {"probe", "read", "respond"}

\* C19: no listener task holds the Error Registry lock while it waits for
\* bind, accept or a timer, no handler holds the Discovery Log lock while it
\* waits for its socket, and the lock on the manager is not held while the
\* listeners of its run wait.
C19_NoLockAcrossWait ==
    /\ \A i \in Endpoints : registry_lock = i => ~ListenerWaits(i)
    /\ \A c \in Conns : disc_lock = c => ~HandlerOnSocket(c)
    /\ NetworkManagerLocked => \A i \in Endpoints : ~ListenerWaits(i)

\* C20: run given no endpoint does not complete normally: it never returns
\* Ok, and when it has returned it has reported an error.
C20_EmptyEndpointsIsError ==
    Len(addr_data) = 0
        => /\ run_result # "Ok"
           /\ run_pc = "returned" => run_result = "Err"

\* ---- the endpoint grammar, as the claims about the parser read it

Numeric(s) == Len(s) > 0 /\ \A k \in 1..Len(s) : IsDigit(s[k])

Pow10(k) == IF k = 0 THEN 1 ELSE IF k = 1 THEN 10 ELSE IF k = 2 THEN 100
            ELSE IF k = 3 THEN 1000 ELSE 10000

\* the number a text of at most five digits writes
NumeralSum(s, k) ==
    LET D(j) == DigitVal(s[j]) * Pow10(Len(s) - j)
    IN IF k = 1 THEN D(1) ELSE IF k = 2 THEN D(1) + D(2)
       ELSE IF k = 3 THEN D(1) + D(2) + D(3)
       ELSE IF k = 4 THEN D(1) + D(2) + D(3) + D(4)
       ELSE D(1) + D(2) + D(3) + D(4) + D(5)

Numeral(s) == NumeralSum(s, Len(s))

IsWild(o) == o = <<"X">> \/ o = <<"x">>

\* an octet that is not a number, or a number above 255
BadOctet(o, wild) ==
    /\ ~(wild /\ IsWild(o))
    /\ ~Numeric(o) \/ Len(o) > 3 \/ Numeral(o) > 255

BadAddr(text, wild) ==
    \E k \in DOMAIN Split(text, ".") : BadOctet(Split(text, ".")[k], wild)

BadPrefix(n) == ~Numeric(n) \/ Len(n) > 2 \/ Numeral(n) > 32

MalformedIp(input) ==
    IF Contains(input, "-")
    THEN LET parts == Split(input, "-")
         IN Len(parts) # 2 \/ \E k \in DOMAIN parts : BadAddr(parts[k], FALSE)
    ELSE IF Contains(input, "/")
    THEN LET parts == Split(input, "/")
         IN Len(parts) # 2 \/ BadAddr(parts[1], FALSE) \/ BadPrefix(parts[2])
    ELSE BadAddr(input, TRUE)

BadPort(p) == ~Numeric(p) \/ Len(p) > 5 \/ Numeral(p) > 65535

MalformedPort(input) ==
    IF Contains(input, "-")
    THEN LET parts == Split(input, "-")
         IN Len(parts) # 2 \/ \E k \in DOMAIN parts : BadPort(parts[k])
    ELSE IF Contains(input, ",")
    THEN \E k \in DOMAIN Split(input, ",") :
            BadPort(TrimText(Split(input, ",")[k]))
    ELSE BadPort(input)

IpParsed == ips.status # "None"

PortParsed == ports.status # "None"

\* C21: for a malformed IP specification parse_ip_input fails, and for a
\* malformed port specification parse_port_input fails: neither returns a
\* sequence, empty or not.
C21_MalformedIsParseError ==
    /\ IpParsed /\ MalformedIp(ip_input) => ips.status = "Panic"
    /\ PortParsed /\ MalformedPort(port_input) => ports.status = "Panic"

\* the address a well-formed dotted quad writes
AddrOf(text) ==
    LET o == Split(text, ".")
    IN <<Numeral(o[1]), Numeral(o[2]), Numeral(o[3]), Numeral(o[4])>>

WellFormedAddr(text) == Len(Split(text, ".")) = 4 /\ ~BadAddr(text, FALSE)

\* b - a as integers, for addresses less than 2^31 apart
Offset(a, b) ==
    (((b[1] - a[1]) * 256 + (b[2] - a[2])) * 256 + (b[3] - a[3])) * 256
        + (b[4] - a[4])

RECURSIVE TwoTo(_)
TwoTo(k) == IF k = 0 THEN 1 ELSE 2 * TwoTo(k - 1)

Ascending(list) ==
    \A k \in 1..(Len(list) - 1) : IpGreater(list[k + 1], list[k])

AscendingPorts(list) == \A k \in 1..(Len(list) - 1) : list[k] < list[k + 1]

\* the line is a range start-end of two addresses with start <= end
IsIpRange(input) ==
    /\ Contains(input, "-")
    /\ Len(Split(input, "-")) = 2
    /\ \A k \in 1..2 : WellFormedAddr(Split(input, "-")[k])
    /\ ~IpGreater(AddrOf(Split(input, "-")[1]), AddrOf(Split(input, "-")[2]))

RangeStart(input) == AddrOf(Split(input, "-")[1])

RangeEnd(input) == AddrOf(Split(input, "-")[2])

\* the line is a block addr/N with N in 0..32
IsCidr(input) ==
    /\ ~Contains(input, "-")
    /\ Contains(input, "/")
    /\ Len(Split(input, "/")) = 2
    /\ WellFormedAddr(Split(input, "/")[1])
    /\ ~BadPrefix(Split(input, "/")[2])

CidrAddr(input) == AddrOf(Split(input, "/")[1])

CidrPrefix(input) == Numeral(Split(input, "/")[2])

\* the line is a port range a-b with a <= b
IsPortRange(input) ==
    /\ Contains(input, "-")
    /\ Len(Split(input, "-")) = 2
    /\ \A k \in 1..2 : ~BadPort(Split(input, "-")[k])
    /\ Numeral(Split(input, "-")[1]) <= Numeral(Split(input, "-")[2])

PortStart(input) == Numeral(Split(input, "-")[1])

PortEnd(input) == Numeral(Split(input, "-")[2])

\* C22: the expansion of a range start-end (start <= end) and of a block
\* addr/N is returned in strictly ascending order, hence without duplicates;
\* a range listed in full has end-start+1 elements from start to end, a
\* block listed in full has 2^(32-N) elements with addr among them, and a
\* range a-a is the one element a.  The same for a port range a-b, a <= b.
\* An expansion of more than MaxExpand addresses is listed up to MaxExpand.
C22_ExpansionAscendingAndCounted ==
    /\ IpParsed /\ IsIpRange(ip_input) =>
          /\ ips.status = "Ok"
          /\ Ascending(ips.list)
          /\ ips.list[1] = RangeStart(ip_input)
          /\ ips.whole =>
               /\ Len(ips.list) = Offset(RangeStart(ip_input), RangeEnd(ip_input)) + 1
               /\ ips.list[Len(ips.list)] = RangeEnd(ip_input)
          /\ ~ips.whole => Len(ips.list) = MaxExpand
          /\ RangeStart(ip_input) = RangeEnd(ip_input) =>
               ips.list = <<RangeStart(ip_input)>>
    /\ IpParsed /\ IsCidr(ip_input) =>
          /\ ips.status = "Ok"
          /\ Ascending(ips.list)
          /\ ips.whole =>
               /\ Len(ips.list) = TwoTo(32 - CidrPrefix(ip_input))
               /\ ~IpGreater(ips.list[1], CidrAddr(ip_input))
               /\ ~IpGreater(CidrAddr(ip_input), ips.list[Len(ips.list)])
          /\ ~ips.whole => Len(ips.list) = MaxExpand
    /\ PortParsed /\ IsPortRange(port_input) =>
          /\ ports.status = "Ok"
          /\ AscendingPorts(ports.list)
          /\ Len(ports.list) = PortEnd(port_input) - PortStart(port_input) + 1
          /\ ports.list[1] = PortStart(port_input)
          /\ ports.list[Len(ports.list)] = PortEnd(port_input)

\* a range that crosses an octet boundary and a port range of three ports
\* have been expanded
C22_Witness ==
    /\ IsIpRange(ip_input)
    /\ ips.status = "Ok" /\ ips.whole
    /\ Len(ips.list) = 3
    /\ ips.list[1][3] # ips.list[3][3]
    /\ IsPortRange(port_input)
    /\ ports.status = "Ok"
    /\ Len(ports.list) = 3

\* a block of 256 addresses has been expanded
C22_WitnessBlock ==
    /\ IsCidr(ip_input)
    /\ ips.status = "Ok" /\ ips.whole
    /\ Len(ips.list) = 256

\* the line is a wildcard specification: four octets, each a number of at
\* most 255 or X, at least one of them X
IsWildcard(input) ==
    /\ ~Contains(input, "-")
    /\ ~Contains(input, "/")
    /\ Len(Split(input, ".")) = 4
    /\ ~BadAddr(input, TRUE)
    /\ \E k \in 1..4 : IsWild(Split(input, ".")[k])

OctetValues(o) == IF IsWild(o) THEN 0..255 ELSE {Numeral(o)}

\* the Cartesian product over the X octets, without the addresses whose
\* last octet is 0 unless the line fixes the last octet to 0
WildcardSet(input) ==
    LET o == Split(input, ".")
    IN {ip \in {<<a, b, c, d>> : a \in OctetValues(o[1]), b \in OctetValues(o[2]),
                                 c \in OctetValues(o[3]), d \in OctetValues(o[4])} :
           ip[4] # 0 \/ o[4] = <<"0">>}

Elements(list) == {list[k] : k \in 1..Len(list)}

\* C23: a wildcard specification expands, in ascending order, to the
\* Cartesian product over its X octets without the addresses that end in 0,
\* which are kept when the line itself fixes the last octet to 0.
C23_WildcardProduct ==
    IpParsed /\ IsWildcard(ip_input) =>
        /\ ips.status = "Ok"
        /\ Ascending(ips.list)
        /\ Elements(ips.list) = WildcardSet(ip_input)

\* the line is a range of two addresses with start > end
IsReversedIpRange(input) ==
    /\ Contains(input, "-")
    /\ Len(Split(input, "-")) = 2
    /\ \A k \in 1..2 : WellFormedAddr(Split(input, "-")[k])
    /\ IpGreater(RangeStart(input), RangeEnd(input))

\* the line is a port range a-b with a > b
IsReversedPortRange(input) ==
    /\ Contains(input, "-")
    /\ Len(Split(input, "-")) = 2
    /\ \A k \in 1..2 : ~BadPort(Split(input, "-")[k])
    /\ PortStart(input) > PortEnd(input)

\* C24: a reversed range, of addresses or of ports, makes its parser fail:
\* no sequence is returned for it.
C24_ReversedRangeRejected ==
    /\ IpParsed /\ IsReversedIpRange(ip_input) => ips.status = "Panic"
    /\ PortParsed /\ IsReversedPortRange(port_input) => ports.status = "Panic"

\* C25: the endpoint list has |IPs| x |ports| elements, and the element
\* number i*|ports|+j (from 0) is IP number i with port number j, whatever
\* the port sequence repeats.
C25_RowMajorComposition ==
    parse_pc = "composed" =>
        /\ Len(addr_data_list) = Len(ips.list) * Len(ports.list)
        /\ \A i \in 0..(Len(ips.list) - 1) : \A j \in 0..(Len(ports.list) - 1) :
              addr_data_list[i * Len(ports.list) + j + 1]
                  = [address |-> ips.list[i + 1], port |-> ports.list[j + 1]]

\* 10.0.0.1-10.0.0.3 with ports 22-23 has been composed
C25_Witness ==
    /\ parse_pc = "composed"
    /\ addr_data_list = <<[address |-> <<10, 0, 0, 1>>, port |-> 22],
                          [address |-> <<10, 0, 0, 1>>, port |-> 23],
                          [address |-> <<10, 0, 0, 2>>, port |-> 22],
                          [address |-> <<10, 0, 0, 2>>, port |-> 23],
                          [address |-> <<10, 0, 0, 3>>, port |-> 22],
                          [address |-> <<10, 0, 0, 3>>, port |-> 23]>>

\* a port list that repeats a port has been composed with several addresses
C25_WitnessDuplicates ==
    /\ parse_pc = "composed"
    /\ Len(ips.list) > 1
    /\ ports.list = <<5, 5>>
    /\ Len(addr_data_list) = 2 * Len(ips.list)

WholeSpace == <<"0", ".", "0", ".", "0", ".", "0", "/", "0">>

\* C26: the line 0.0.0.0/0 is not expanded: parse_ip_input fails on it.
\* addr_input reads the two lines and nothing else, so there is no
\* confirmation that an expansion could have followed.
C26_WholeSpaceRejected ==
    IpParsed /\ ip_input = WholeSpace => ips.status = "Panic"

\* ---- the calibration file, as the claims about the calibrator read it

\* the value the file's line gives to a field: the text after its key
StoredText(file, key) ==
    file.line[CHOOSE k \in 1..Len(file.line) : file.line[k].key = key].val

\* the file holds one whole record: both fields, each once, each a number
FileComplete(file) ==
    /\ file.exists
    /\ Len(file.line) = 2
    /\ \A key \in {"optimal_threads", "total_workers"} :
          /\ \E k \in 1..2 : file.line[k].key = key
          /\ Numeric(StoredText(file, key))
          /\ Len(StoredText(file, key)) <= 5

StoredOptimal(file) == Numeral(StoredText(file, "optimal_threads"))

\* C27: when a call of get_thread_factor opens a metrics.txt that holds a
\* whole record, it returns at once the optimal_threads stored there without
\* a benchmark, and neither the start of the call nor the read changes the
\* file.
C27_CacheHitReturnsStored ==
    [][/\ cal_pc = "idle" /\ cal_pc' = "read" => metrics_file' = metrics_file
       /\ (cal_pc = "read" /\ FileComplete(metrics_file) /\ CurrentCall'.opened)
             => /\ cal_pc' = "idle"
                /\ CurrentCall'.outcome = "returned"
                /\ CurrentCall'.value = StoredOptimal(metrics_file)
                /\ CurrentCall'.benchmarks = 0
                /\ ~CurrentCall'.searched
                /\ metrics_file' = metrics_file]_vars

\* a call has returned the 42 of a file that was there before it
C27_Witness ==
    /\ cal_pc = "idle"
    /\ Len(cal_log) = 1
    /\ CurrentCall.outcome = "returned"
    /\ ~CurrentCall.searched
    /\ CurrentCall.value = 42
    /\ FileComplete(metrics_file)
    /\ StoredOptimal(metrics_file) = 42

PreviousCall == cal_log[1]

\* a second call has come to its end after a first call that found no file,
\* searched and returned
SecondCallAfterFirst ==
    /\ Len(cal_log) = 2
    /\ PreviousCall.no_file
    /\ PreviousCall.outcome = "returned"
    /\ CurrentCall.outcome = "returned"

C29_IoErrorNeverAborts ==
    \A k \in 1..Len(cal_log) :
        /\ cal_log[k].outcome = "returned" /\ ~cal_log[k].opened
              => cal_log[k].searched
        /\ cal_log[k].outcome # "write_panic"

\* C30: no step turns a metrics.txt that is absent or holds one whole record
\* into one that is empty or cut short.
C30_FileReplacedAtomically ==
    [][~metrics_file.exists \/ FileComplete(metrics_file)
          => ~metrics_file'.exists \/ FileComplete(metrics_file')]_vars

\* the worker counts passed to run_benchmark so far in this search
TestedWorkers == {search.tested[k].workers : k \in 1..Len(search.tested)}

\* the while loop of find_optimal_workers is where the next pass would begin
InLoop == cal_pc = "loop"

CeilDiv(a, b) == (a + b - 1) \div b

\* pass k of the loop left the scaled count where it was (integer truncation)
Plateau(k) ==
    Scaled(search.tested[k].workers, search.tested[k].cpu)
        = search.tested[k].workers

\* C32: whenever the scaled next worker count equals the current count w,
\* the search adds at least ceil(w/3) >= 1 to it (up to the cap), so two
\* consecutive iterations below the cap never benchmark the same worker
\* count, for every w >= 1.
C32_PlateauBroken ==
    InLoop =>
        \A k \in 1..(Len(search.tested) - 1) :
            LET w == search.tested[k].workers
                next == search.tested[k + 1].workers
            IN (w >= 1 /\ w < Cap) =>
                  /\ next # w
                  /\ Plateau(k) => next >= Min(Cap, w + CeilDiv(w, 3))

\* C36: every worker count passed to run_benchmark, and the optimal count
\* that find_optimal_workers returns and persists, is at least 1 and at most
\* the cap, for every base >= 1 and every sequence of measured CPU values.
C36_WorkerCountsWithinCap ==
    /\ TestedWorkers \subseteq 1..Cap
    /\ search # NoSearch => search.best_workers \in 1..Cap
    /\ (cal_log # <<>> /\ CurrentCall.searched
            /\ CurrentCall.outcome = "returned")
          => CurrentCall.value \in 1..Cap
    /\ (cal_log # <<>> /\ CurrentCall.searched /\ FileComplete(metrics_file))
          => StoredOptimal(metrics_file) \in 1..Cap

\* the lines of a text: what stands before each of its line feeds
LineFeeds(text) == {k \in 1..Len(text) : text[k] = 10}

LineCount(text) == Cardinality(LineFeeds(text))

LineEnd(text, j) ==
    CHOOSE k \in LineFeeds(text) :
        Cardinality({m \in LineFeeds(text) : m <= k}) = j

LineOf(text, j) ==
    SubSeq(text, IF j = 1 THEN 1 ELSE LineEnd(text, j - 1) + 1,
           LineEnd(text, j) - 1)

SingleLine(content) == content # <<>> /\ LineFeeds(content) = {}

\* "[timestamp] ip:port"
EntryHeader(e) ==
    <<91>> \o LocalNow \o <<93, 32>> \o IpBytes(e.ip) \o <<58>>
        \o DecBytes(e.port)

\* C33: every record_service call whose append succeeds adds exactly five
\* lines to the discovery log: "[timestamp] ip:port", a line of exactly 50
\* dashes, the trimmed payload, and two blank lines (single-line payload).
C33_RecordIsFiveLines ==
    \A k \in 1..Len(log_file) :
        SingleLine(log_file[k].content) =>
            /\ LineCount(EntryBytes(log_file[k])) = 5
            /\ LineOf(EntryBytes(log_file[k]), 1) = EntryHeader(log_file[k])
            /\ LineOf(EntryBytes(log_file[k]), 2) = Dashes(50)
            /\ LineOf(EntryBytes(log_file[k]), 3) = log_file[k].content
            /\ LineOf(EntryBytes(log_file[k]), 4) = <<>>
            /\ LineOf(EntryBytes(log_file[k]), 5) = <<>>

\* run has spawned the listener task of endpoint i
TaskSpawned(i) == listener[i] # "Unbound"

\* the listener task of endpoint i has called TcpListener::bind at least once
BindAttempted(i) ==
    \/ listener[i] \in {"Accepting", "BindFailed", "Closed"}
    \/ listener[i] = "Binding" /\ retry_count[i] > 0

\* C34: endpoints are presented for binding in the order of the endpoint
\* sequence: listener task i is spawned before listener task j whenever
\* i < j, and the bind attempt of endpoint i never happens after the bind
\* attempt of endpoint j, in every interleaving of the spawned tasks.
C34_BindInEndpointOrder ==
    \A i, j \in Endpoints :
        i < j => /\ TaskSpawned(j) => TaskSpawned(i)
                 /\ BindAttempted(j) => BindAttempted(i)

\* C34, as the code has it: the listener tasks are spawned in the order of
\* the endpoint sequence, so an endpoint is bound only after the tasks of
\* all endpoints before it have been spawned; the bind attempts themselves
\* are in sequence order where run has one permit, and in any order of the
\* tasks that hold permits together otherwise.
C34_SpawnInEndpointOrder ==
    \A i, j \in Endpoints :
        i < j => /\ TaskSpawned(j) => TaskSpawned(i)
                 /\ BindAttempted(j) => TaskSpawned(i)
                 /\ (max_concurrent = 1 /\ BindAttempted(j))
                       => BindAttempted(i)

\* two tasks spawned in order, the second bound and accepting before the
\* first has called bind
C34_Witness ==
    /\ Len(addr_data) = 2
    /\ TaskSpawned(1) /\ ~BindAttempted(1)
    /\ listener[2] = "Accepting"

\* C38: CoreState.is_running is true whenever a listener of the core's
\* network manager is Binding or Accepting: start marks the core as running
\* before listeners serve connections, and after shutdown has set is_running
\* to false no listener is still accepting.
C38_RunningWhileListening ==
    \A i \in Endpoints :
        listener[i] \in {"Binding", "Accepting"} => is_running

\* C37: run makes progress only when max_concurrent >= 1.  The value that
\* get_thread_factor reads from the cache file becomes max_concurrent as it
\* is; with max_concurrent = 0 and a non-empty endpoint sequence run waits
\* for ever for its first permit: no listener task is spawned, no endpoint
\* is bound, and run does not return.
C37_ZeroPermitsBlockRun ==
    Started =>
        /\ max_concurrent = StoredOptimal(metrics_file)
        /\ (max_concurrent = 0 /\ addr_data # <<>>) =>
              /\ ~CanAcquire
              /\ next_ep = 1
              /\ \A i \in Endpoints : listener[i] = "Unbound"
              /\ run_pc # "returned"
              /\ run_result = "None"
              /\ ~is_running

\* a server started with the cached worker count 0 and two endpoints, seen
\* after a call of shutdown: run is where it began
C37_Witness ==
    /\ Started
    /\ CurrentCall.opened /\ CurrentCall.value = 0
    /\ max_concurrent = 0
    /\ Len(addr_data) = 2
    /\ shutdown_called
    /\ run_pc = "running" /\ next_ep = 1

\* the state a host is in for the tracker: Alive until it is seen Dead
StateOf(h, ip) == IF ip \in DOMAIN h THEN h[ip].current_state ELSE "Alive"

TotalDowntime(h, ip) == IF ip \in DOMAIN h THEN h[ip].total_downtime ELSE 0

\* the DOWN and RECOVERED lines of a host, in the order of the file
TransitionLines(log, ip) ==
    LET OfHost(l) == l.ip = ip /\ l.event \in {"DOWN", "RECOVERED"}
    IN SelectSeq(log, OfHost)

\* C35: update_host_status appends exactly one log line per state transition
\* (DOWN on Alive -> Dead, RECOVERED on Dead -> Alive) and no line when an
\* observation matches the host's current state; a host seen for the first
\* time starts as Alive, so for each host DOWN and RECOVERED lines strictly
\* alternate starting with DOWN, and total_downtime never decreases.
C35_OneLinePerTransition ==
    /\ [][\A ip \in PingIps :
            LET before == TransitionLines(host_log, ip)
                after == TransitionLines(host_log', ip)
            IN /\ IsPrefix(before, after)
               /\ Len(after) - Len(before)
                     = IF StateOf(hosts', ip) # StateOf(hosts, ip)
                       THEN 1 ELSE 0
               /\ (StateOf(hosts, ip) = "Alive"
                      /\ StateOf(hosts', ip) = "Dead")
                     => after[Len(after)].event = "DOWN"
               /\ (StateOf(hosts, ip) = "Dead"
                      /\ StateOf(hosts', ip) = "Alive")
                     => after[Len(after)].event = "RECOVERED"
               /\ TotalDowntime(hosts', ip) >= TotalDowntime(hosts, ip)]_vars
    /\ [](\A ip \in PingIps :
            \A k \in 1..Len(TransitionLines(host_log, ip)) :
                TransitionLines(host_log, ip)[k].event
                    = IF k % 2 = 1 THEN "DOWN" ELSE "RECOVERED")
====
